---- MODULE Spec2Model ----
(***************************************************************************)
(* WireLab (wiring-app/src/App.js): the component / wire store of the App  *)
(* component, the graphs the engine derives from it, the analysis that     *)
(* reads those graphs, and the wire-cut (splice) operation.                *)
(*                                                                         *)
(* Encodings.                                                              *)
(*  - newId() draws a fresh random string; here ids are fresh integers     *)
(*    taken from the counter nextId.  The JavaScript value `undefined`     *)
(*    used as a terminal id is UNDEF.                                      *)
(*  - cross-sectional areas are in tenths of mm^2 (2.5 mm^2 = 25), 0 is    *)
(*    "no size"; lengths are in metres, 0 is "no explicit length".         *)
(*  - resistances are in units of 10^-7 ohm.                               *)
(*  - squared distances are exact fractions [num, den].                    *)
(***************************************************************************)
EXTENDS Integers, Sequences, FiniteSets, TLC

VARIABLES components, wires, pending, undoStack, redoStack, nextId, region,
          simMode, handler

vars == <<components, wires, pending, undoStack, redoStack, nextId, region,
          simMode, handler>>

UNDEF == 0
NoTerm == -1

\* ---------------------------------------------------------------- helpers
SeqToSet(s) == {s[i] : i \in 1..Len(s)}

RECURSIVE SelectSeqBy(_, _)
\* Array.prototype.filter over a sequence with a membership test.
SelectSeqBy(s, keep) ==
  IF s = <<>> THEN <<>>
  ELSE IF Head(s) \in keep THEN <<Head(s)>> \o SelectSeqBy(Tail(s), keep)
       ELSE SelectSeqBy(Tail(s), keep)

Max2(a, b) == IF a >= b THEN a ELSE b
Abs(a) == IF a < 0 THEN -a ELSE a

\* ------------------------------------------------------- terminal families
LineTermTypes == {"L", "LIN", "LOUT", "COM", "L1", "L2"}
NeutralTermTypes == {"N", "NIN", "NOUT"}
EarthTermTypes == {"E", "EIN", "EOUT"}

Families == {"L", "N", "E"}
FamilySet(k) == IF k = "L" THEN LineTermTypes
                ELSE IF k = "N" THEN NeutralTermTypes ELSE EarthTermTypes

\* ------------------------------------------------------ component library
Term(id, name, t, dx, dy) == [id |-> id, name |-> name, t |-> t, dx |-> dx, dy |-> dy]

\* Components without a state object carry this placeholder.
NoState == [on |-> FALSE, pos |-> 0, ways |-> <<>>]

\* hidden, showHandles and hiddenHandleIds are set on junctions only (undefined, hence
\* falsy or empty, elsewhere).
Comp(id, type, x, y, terms, st, il, links) ==
  [id |-> id, type |-> type, x |-> x, y |-> y, terminals |-> terms,
   state |-> st, il |-> il, links |-> links,
   hidden |-> FALSE, showHandles |-> FALSE, hiddenHandleIds |-> {}]

makeSupply(x, y, i) ==
  Comp(i, "SUPPLY", x, y,
       << Term(i + 1, "L", "L", 10, 10), Term(i + 2, "N", "N", 10, 40),
          Term(i + 3, "E", "E", 10, 70) >>,
       NoState, "arr", <<>>)

makeLamp(x, y, i) ==
  Comp(i, "LAMP", x, y,
       << Term(i + 1, "L", "L", 10, 10), Term(i + 2, "N", "N", 10, 40),
          Term(i + 3, "E", "E", 10, 70) >>,
       NoState, "arr", <<>>)

makeSwitch1Way(x, y, i) ==
  Comp(i, "SWITCH_1WAY", x, y,
       << Term(i + 1, "COM", "COM", 10, 15), Term(i + 2, "L1", "L1", 10, 55),
          Term(i + 3, "E", "E", 80, 35) >>,
       [NoState EXCEPT !.on = FALSE], "fn", <<>>)

makeSwitch2Way(x, y, i) ==
  Comp(i, "SWITCH_2WAY", x, y,
       << Term(i + 1, "COM", "COM", 10, 10), Term(i + 2, "L1", "L1", 10, 40),
          Term(i + 3, "L2", "L2", 10, 70), Term(i + 4, "E", "E", 80, 40) >>,
       [NoState EXCEPT !.pos = 0], "fn", <<>>)

makeSwitchIntermediate(x, y, i) ==
  Comp(i, "SWITCH_INTERMEDIATE", x, y,
       << Term(i + 1, "L1A", "L1", 10, 12), Term(i + 2, "L1B", "L1", 10, 36),
          Term(i + 3, "L2A", "L2", 10, 60), Term(i + 4, "L2B", "L2", 10, 84),
          Term(i + 5, "E", "E", 90, 48) >>,
       [NoState EXCEPT !.pos = 0], "fn", <<>>)

\* The connector blocks take their three terminal ids before their own id.
makeConnectorN3(x, y, i) ==
  Comp(i + 3, "CONNECTOR_N3", x, y,
       << Term(i, "N1", "N", 10, 18), Term(i + 1, "N2", "N", 10, 48),
          Term(i + 2, "N3", "N", 10, 78) >>,
       NoState, "arr", << <<"N1", "N2">>, <<"N1", "N3">> >>)

\* A Line block whose third port is not commoned.
makeConnectorL3_TwoPorts(x, y, i) ==
  Comp(i + 3, "CONNECTOR_L3", x, y,
       << Term(i, "L1", "L", 10, 18), Term(i + 1, "L2", "L", 10, 48),
          Term(i + 2, "L3", "L", 10, 78) >>,
       NoState, "arr", << <<"L1", "L2">> >>)

makeConnectorL3(x, y, i) ==
  Comp(i + 3, "CONNECTOR_L3", x, y,
       << Term(i, "L1", "L", 10, 18), Term(i + 1, "L2", "L", 10, 48),
          Term(i + 2, "L3", "L", 10, 78) >>,
       NoState, "arr", << <<"L1", "L2">>, <<"L1", "L3">> >>)

Digits == <<"1", "2", "3", "4", "5", "6", "7", "8", "9">>

\* `LOUT${i+1}`, `N${i+1}`, `E${i+1}`
WayName(prefix, k) == prefix \o Digits[k]

makeConnectorE3(x, y, i) ==
  Comp(i + 3, "CONNECTOR_E3", x, y,
       << Term(i, "E1", "E", 10, 18), Term(i + 1, "E2", "E", 10, 48),
          Term(i + 2, "E3", "E", 10, 78) >>,
       NoState, "arr", << <<"E1", "E2">>, <<"E1", "E3">> >>)

\* makeWago3(kind, x, y), kind "L", "N" or "E": the terminal type is the kind.
makeWago3(kind, x, y, i) ==
  Comp(i + 3, "WAGO_" \o kind \o "3", x, y,
       << Term(i, WayName(kind, 1), kind, 10, 18), Term(i + 1, WayName(kind, 2), kind, 10, 48),
          Term(i + 2, WayName(kind, 3), kind, 10, 78) >>,
       NoState, "arr",
       << <<WayName(kind, 1), WayName(kind, 2)>>, <<WayName(kind, 1), WayName(kind, 3)>> >>)

\* A 5-way connector whose fifth lever is not commoned.
makeWago5_FourCommoned(kind, x, y, i) ==
  Comp(i + 5, "WAGO_" \o kind \o "5", x, y,
       [k \in 1..5 |-> Term(i + k - 1, WayName(kind, k), kind, 10, 10 + 18 * k)],
       NoState, "arr", [k \in 1..3 |-> <<WayName(kind, 1), WayName(kind, k + 1)>>])

\* makeWago5(kind, x, y): ts.slice(1).map(t => [ts[0].name, t.name])
makeWago5(kind, x, y, i) ==
  Comp(i + 5, "WAGO_" \o kind \o "5", x, y,
       [k \in 1..5 |-> Term(i + k - 1, WayName(kind, k), kind, 10, 10 + 18 * k)],
       NoState, "arr", [k \in 1..4 |-> <<WayName(kind, 1), WayName(kind, k + 1)>>])

SocketTerms(i, dyL, dyN, dyE) ==
  << Term(i + 1, "LIN", "LIN", 10, dyL), Term(i + 2, "LOUT", "LOUT", 70, dyL),
     Term(i + 3, "NIN", "NIN", 10, dyN), Term(i + 4, "NOUT", "NOUT", 70, dyN),
     Term(i + 5, "EIN", "EIN", 10, dyE), Term(i + 6, "EOUT", "EOUT", 70, dyE) >>

SocketLinks == << <<"LIN", "LOUT">>, <<"NIN", "NOUT">>, <<"EIN", "EOUT">> >>

makeSocket1G(x, y, i) ==
  Comp(i, "SOCKET_1G", x, y, SocketTerms(i, 22, 62, 102), NoState, "arr", SocketLinks)

makeSocket2G(x, y, i) ==
  Comp(i, "SOCKET_2G", x, y, SocketTerms(i, 18, 58, 98), NoState, "arr", SocketLinks)

\* Number of ways of a consumer unit in the model (the factory accepts 2..20).
CUWays == 3

\* Layout of makeConsumerUnit
WAY_Y0 == 56
WAY_SP == 14
LOUT_X == 190
N_BAR_Y == 210
E_BAR_Y == 235
BAR_DX == 14


\* terms = [L, N, E, LOUT1..LOUTn, N1, E1, N2, E2, ...]; the unit's own id is drawn last.
makeConsumerUnit(x, y, i) ==
  LET n == CUWays
      tails == << Term(i, "L", "L", 12, 28), Term(i + 1, "N", "N", 12, 52),
                  Term(i + 2, "E", "E", 12, 76) >>
      louts == [k \in 1..n |->
                  Term(i + 2 + k, WayName("LOUT", k), "LOUT", LOUT_X, WAY_Y0 + (k - 1) * WAY_SP)]
      bars == [j \in 1..(2 * n) |->
                 LET k == (j + 1) \div 2 IN
                 IF j % 2 = 1
                 THEN Term(i + 2 + n + j, WayName("N", k), "N", 24 + (k - 1) * BAR_DX, N_BAR_Y)
                 ELSE Term(i + 2 + n + j, WayName("E", k), "E", 24 + (k - 1) * BAR_DX, E_BAR_Y)]
  IN Comp(i + 3 + 3 * n, "CONSUMER_UNIT", x, y, tails \o louts \o bars,
          [NoState EXCEPT !.ways = [k \in 1..n |-> [closed |-> TRUE]]], "fn", <<>>)

\* The ways of a split-load unit: Math.max(4, Math.min(20, opts.ways ?? 10)).
SplitWays == 4

\* terms = [L, N, E, LOUT1, NOUT1, ..., N_A1.., N_B1.., E1..]; the unit's own id is
\* drawn last. Bank A holds the first floor(ways / 2) ways.
makeConsumerUnitSplit(x, y, i) ==
  LET n == SplitWays
      half == n \div 2
      tails == << Term(i, "L", "L", 15, 33), Term(i + 1, "N", "N", 15, 69),
                  Term(i + 2, "E", "E", 15, 105) >>
      outs == [j \in 1..(2 * n) |->
                 LET k == (j + 1) \div 2 IN
                 IF j % 2 = 1
                 THEN Term(i + 2 + j, WayName("LOUT", k), "LOUT", 300, 33 + (k - 1) * 24)
                 ELSE Term(i + 2 + j, WayName("NOUT", k), "N", 276, 33 + (k - 1) * 24)]
      nBarA == [k \in 1..half |->
                  Term(i + 2 + 2 * n + k, WayName("N_A", k), "N", 39 + (k - 1) * 18, 255)]
      nBarB == [k \in 1..(n - half) |->
                  Term(i + 2 + 2 * n + half + k, WayName("N_B", k), "N", 39 + (k - 1) * 18, 279)]
      eBar == [k \in 1..n |->
                 Term(i + 2 + 3 * n + k, WayName("E", k), "E", 39 + (k - 1) * 18, 303)]
  IN Comp(i + 3 + 4 * n, "CONSUMER_UNIT_SPLIT", x, y, tails \o outs \o nBarA \o nBarB \o eBar,
          [mainOn |-> TRUE, rcdAOn |-> TRUE, rcdBOn |-> TRUE,
           ways |-> [k \in 1..n |-> [closed |-> TRUE, rcbo |-> FALSE]]], "fn", <<>>)

\* How many ids a factory draws.
IdsOf(type) ==
  IF type \in {"SUPPLY", "LAMP", "SWITCH_1WAY", "CONNECTOR_N3", "CONNECTOR_L3", "CONNECTOR_E3",
               "WAGO_L3", "WAGO_N3", "WAGO_E3"} THEN 4
  ELSE IF type \in {"WAGO_L5", "WAGO_N5", "WAGO_E5"} THEN 6
  ELSE IF type = "SWITCH_2WAY" THEN 5
  ELSE IF type = "SWITCH_INTERMEDIATE" THEN 6
  ELSE IF type = "CONSUMER_UNIT_SPLIT" THEN 4 * SplitWays + 4
  ELSE IF type \in {"SOCKET_1G", "SOCKET_2G"} THEN 7
  ELSE 3 * CUWays + 4

Make(type, x, y, i) ==
  IF type = "SUPPLY" THEN makeSupply(x, y, i)
  ELSE IF type = "LAMP" THEN makeLamp(x, y, i)
  ELSE IF type = "SWITCH_1WAY" THEN makeSwitch1Way(x, y, i)
  ELSE IF type = "SWITCH_2WAY" THEN makeSwitch2Way(x, y, i)
  ELSE IF type = "SWITCH_INTERMEDIATE" THEN makeSwitchIntermediate(x, y, i)
  ELSE IF type = "CONNECTOR_N3" THEN makeConnectorN3(x, y, i)
  ELSE IF type = "CONNECTOR_L3" THEN makeConnectorL3(x, y, i)
  ELSE IF type = "CONSUMER_UNIT_SPLIT" THEN makeConsumerUnitSplit(x, y, i)
  ELSE IF type = "CONNECTOR_E3" THEN makeConnectorE3(x, y, i)
  ELSE IF type = "WAGO_L3" THEN makeWago3("L", x, y, i)
  ELSE IF type = "WAGO_N3" THEN makeWago3("N", x, y, i)
  ELSE IF type = "WAGO_E3" THEN makeWago3("E", x, y, i)
  ELSE IF type = "WAGO_L5" THEN makeWago5("L", x, y, i)
  ELSE IF type = "WAGO_N5" THEN makeWago5("N", x, y, i)
  ELSE IF type = "WAGO_E5" THEN makeWago5("E", x, y, i)
  ELSE IF type = "SOCKET_1G" THEN makeSocket1G(x, y, i)
  ELSE IF type = "SOCKET_2G" THEN makeSocket2G(x, y, i)
  ELSE makeConsumerUnit(x, y, i)

\* Split-load links whose Neutral-outs ignore the RCBO flag.
SplitLinks_NoRcbo(c) ==
  LET n == Len(c.state.ways)
      half == n \div 2
      bankOk(k) == IF k <= half THEN c.state.rcdAOn ELSE c.state.rcdBOn
      bar0(k) == IF k <= half THEN "N_A1" ELSE "N_B1"
      Ways(keep) == SelectSeqBy([k \in 1..n |-> k], keep)
      barA == [k \in 1..(half - 1) |-> << "N_A1", WayName("N_A", k + 1) >>]
      barB == [k \in 1..(n - half - 1) |-> << "N_B1", WayName("N_B", k + 1) >>]
      ebar == [k \in 1..(n - 1) |-> << "E1", WayName("E", k + 1) >>]
      tails == << <<"E", "E1">> >>
               \o (IF c.state.mainOn /\ c.state.rcdAOn THEN << <<"N", "N_A1">> >> ELSE <<>>)
               \o (IF c.state.mainOn /\ c.state.rcdBOn THEN << <<"N", "N_B1">> >> ELSE <<>>)
      lw == Ways({k \in 1..n : c.state.mainOn /\ bankOk(k) /\ c.state.ways[k].closed})
      nw == Ways({k \in 1..n : c.state.mainOn /\ bankOk(k)})
  IN barA \o barB \o ebar \o tails
     \o [j \in 1..Len(lw) |-> << "L", WayName("LOUT", lw[j]) >>]
     \o [j \in 1..Len(nw) |-> << bar0(nw[j]), WayName("NOUT", nw[j]) >>]

\* The internalLinks closure of the split-load unit.
SplitLinks(c) ==
  LET n == Len(c.state.ways)
      half == n \div 2
      bankOk(k) == IF k <= half THEN c.state.rcdAOn ELSE c.state.rcdBOn
      bar0(k) == IF k <= half THEN "N_A1" ELSE "N_B1"
      Ways(keep) == SelectSeqBy([k \in 1..n |-> k], keep)
      barA == [k \in 1..(half - 1) |-> << "N_A1", WayName("N_A", k + 1) >>]
      barB == [k \in 1..(n - half - 1) |-> << "N_B1", WayName("N_B", k + 1) >>]
      ebar == [k \in 1..(n - 1) |-> << "E1", WayName("E", k + 1) >>]
      tails == << <<"E", "E1">> >>
               \o (IF c.state.mainOn /\ c.state.rcdAOn THEN << <<"N", "N_A1">> >> ELSE <<>>)
               \o (IF c.state.mainOn /\ c.state.rcdBOn THEN << <<"N", "N_B1">> >> ELSE <<>>)
      lw == Ways({k \in 1..n : c.state.mainOn /\ bankOk(k) /\ c.state.ways[k].closed})
      nw == Ways({k \in 1..n : /\ c.state.mainOn /\ bankOk(k)
                               /\ (c.state.ways[k].rcbo => c.state.ways[k].closed)})
  IN barA \o barB \o ebar \o tails
     \o [j \in 1..Len(lw) |-> << "L", WayName("LOUT", lw[j]) >>]
     \o [j \in 1..Len(nw) |-> << bar0(nw[j]), WayName("NOUT", nw[j]) >>]

\* Closures whose 2-way switch keeps COM on L1 in both positions.
LinksFn_TwoWayStuck(c) ==
  IF c.type = "CONSUMER_UNIT_SPLIT" THEN SplitLinks(c)
  ELSE IF c.type = "SWITCH_1WAY" THEN (IF c.state.on THEN << <<"COM", "L1">> >> ELSE <<>>)
  ELSE IF c.type = "SWITCH_2WAY"
  THEN (IF c.state.pos = 0 THEN << <<"COM", "L1">> >> ELSE << <<"COM", "L1">> >>)
  ELSE IF c.type = "SWITCH_INTERMEDIATE"
  THEN (IF c.state.pos = 0 THEN << <<"L1A", "L1B">>, <<"L2A", "L2B">> >>
        ELSE << <<"L1A", "L2B">>, <<"L2A", "L1B">> >>)
  ELSE IF c.type = "CONSUMER_UNIT" THEN
    LET n == Len(c.state.ways)
        nbar == [k \in 1..(n - 1) |-> << "N1", WayName("N", k + 1) >>]
        ebar == [k \in 1..(n - 1) |-> << "E1", WayName("E", k + 1) >>]
        tails == << <<"N", "N1">>, <<"E", "E1">> >>
        closedWays == SelectSeqBy([k \in 1..n |-> k], {k \in 1..n : c.state.ways[k].closed})
        feeds == [j \in 1..Len(closedWays) |-> << "L", WayName("LOUT", closedWays[j]) >>]
    IN nbar \o ebar \o tails \o feeds
  ELSE <<>>

\* The internalLinks closures of the stateful variants.
LinksFn(c) ==
  IF c.type = "CONSUMER_UNIT_SPLIT" THEN SplitLinks(c)
  ELSE IF c.type = "SWITCH_1WAY" THEN (IF c.state.on THEN << <<"COM", "L1">> >> ELSE <<>>)
  ELSE IF c.type = "SWITCH_2WAY"
  THEN (IF c.state.pos = 0 THEN << <<"COM", "L1">> >> ELSE << <<"COM", "L2">> >>)
  ELSE IF c.type = "SWITCH_INTERMEDIATE"
  THEN (IF c.state.pos = 0 THEN << <<"L1A", "L1B">>, <<"L2A", "L2B">> >>
        ELSE << <<"L1A", "L2B">>, <<"L2A", "L1B">> >>)
  ELSE IF c.type = "CONSUMER_UNIT" THEN
    LET n == Len(c.state.ways)
        nbar == [k \in 1..(n - 1) |-> << "N1", WayName("N", k + 1) >>]
        ebar == [k \in 1..(n - 1) |-> << "E1", WayName("E", k + 1) >>]
        tails == << <<"N", "N1">>, <<"E", "E1">> >>
        closedWays == SelectSeqBy([k \in 1..n |-> k], {k \in 1..n : c.state.ways[k].closed})
        feeds == [j \in 1..Len(closedWays) |-> << "L", WayName("LOUT", closedWays[j]) >>]
    IN nbar \o ebar \o tails \o feeds
  ELSE <<>>

\* typeof c.internalLinks === "function" ? c.internalLinks(c) : c.internalLinks || []
InternalLinks(c) ==
  IF c.il = "fn" THEN LinksFn(c) ELSE IF c.il = "arr" THEN c.links ELSE <<>>

\* ------------------------------------------------------------ lookups
AllTerminals(comps) ==
  UNION {SeqToSet(comps[i].terminals) : i \in 1..Len(comps)}

TerminalIds(comps) == {t.id : t \in AllTerminals(comps)}

\* terminalById: the first component (and its first terminal) holding the id, or null.
HasTerminal(comps, tid) == \E i \in 1..Len(comps) : \E t \in SeqToSet(comps[i].terminals) : t.id = tid

\* The least index of a non-empty set of indices (Array.prototype.find).
FirstIndex(S) == CHOOSE i \in S : \A j \in S : i <= j

CompIndexOf(comps, tid) ==
  FirstIndex({i \in 1..Len(comps) : \E t \in SeqToSet(comps[i].terminals) : t.id = tid})

terminalById(comps, tid) ==
  LET c == comps[CompIndexOf(comps, tid)]
  IN [comp |-> c,
      term |-> c.terminals[FirstIndex({k \in 1..Len(c.terminals) : c.terminals[k].id = tid})]]

\* Array.prototype.find by terminal name; undefined when there is none.
HasTermNamed(c, name) == \E i \in 1..Len(c.terminals) : c.terminals[i].name = name

TermNamed(c, name) ==
  c.terminals[FirstIndex({k \in 1..Len(c.terminals) : c.terminals[k].name = name})]

termIdByName(c, name) == IF HasTermNamed(c, name) THEN TermNamed(c, name).id ELSE UNDEF

\* terminals.find(t => t.t === type)?.id
TermIdByType(c, type) ==
  IF \E k \in 1..Len(c.terminals) : c.terminals[k].t = type
  THEN c.terminals[FirstIndex({k \in 1..Len(c.terminals) : c.terminals[k].t = type})].id
  ELSE UNDEF

componentTerminalAbsPos(c, t) == [x |-> c.x + t.dx, y |-> c.y + t.dy]

\* termTypeById map of the typed builders: the LAST terminal registered under an id.
TermTypeById(comps, tid) ==
  IF HasTerminal(comps, tid) THEN terminalById(comps, tid).term.t ELSE "undefined"

\* ------------------------------------------------------ unweighted graphs
\* A graph maps each node to the sequence of its neighbours in insertion order.
EmptyGraph == [n \in {} |-> <<>>]

Nbrs(g, n) == IF n \in DOMAIN g THEN g[n] ELSE <<>>

AppendNew(s, x) == IF \E i \in 1..Len(s) : s[i] = x THEN s ELSE Append(s, x)

\* Map of Sets: adj.get(a).add(b); adj.get(b).add(a)
addEdge(g, a, b) ==
  LET d == DOMAIN g \cup {a, b}
      s1 == [n \in d |-> IF n = a THEN AppendNew(Nbrs(g, n), b) ELSE Nbrs(g, n)]
  IN [n \in d |-> IF n = b THEN AppendNew(s1[n], a) ELSE s1[n]]

RECURSIVE AddLinkEdges(_, _, _, _)
\* The internal links of one component; a pair naming a missing terminal is skipped.
AddLinkEdges(g, c, links, allowed) ==
  IF links = <<>> THEN g
  ELSE LET n1 == Head(links)[1]
           n2 == Head(links)[2]
           ok == /\ HasTermNamed(c, n1) /\ HasTermNamed(c, n2)
                 /\ TermNamed(c, n1).t \in allowed /\ TermNamed(c, n2).t \in allowed
       IN AddLinkEdges(IF ok THEN addEdge(g, TermNamed(c, n1).id, TermNamed(c, n2).id) ELSE g,
                       c, Tail(links), allowed)

RECURSIVE AddAllLinks(_, _, _)
AddAllLinks(g, comps, allowed) ==
  IF comps = <<>> THEN g
  ELSE AddAllLinks(AddLinkEdges(g, Head(comps), InternalLinks(Head(comps)), allowed),
                   Tail(comps), allowed)

AnyTermType == LineTermTypes \cup NeutralTermTypes \cup EarthTermTypes \cup {"undefined"}

RECURSIVE AddWiresPlain(_, _)
\* for (const w of wires) addEdge(w.a, w.b)
AddWiresPlain(g, ws) ==
  IF ws = <<>> THEN g ELSE AddWiresPlain(addEdge(g, Head(ws).a, Head(ws).b), Tail(ws))

buildAdjacency(comps, ws) == AddAllLinks(AddWiresPlain(EmptyGraph, ws), comps, AnyTermType)

RECURSIVE AddWiresTyped(_, _, _, _)
AddWiresTyped(g, comps, ws, allowed) ==
  IF ws = <<>> THEN g
  ELSE LET w == Head(ws)
           ok == TermTypeById(comps, w.a) \in allowed /\ TermTypeById(comps, w.b) \in allowed
       IN AddWiresTyped(IF ok THEN addEdge(g, w.a, w.b) ELSE g, comps, Tail(ws), allowed)

buildTypedSubgraph(comps, ws, allowed) ==
  AddAllLinks(AddWiresTyped(EmptyGraph, comps, ws, allowed), comps, allowed)

RECURSIVE BfsNbrs(_, _, _)
\* One pass over the neighbours of the dequeued node: [q, seen] after it.
BfsNbrs(nb, q, seen) ==
  IF nb = <<>> THEN [q |-> q, seen |-> seen]
  ELSE IF Head(nb) \in seen THEN BfsNbrs(Tail(nb), q, seen)
       ELSE BfsNbrs(Tail(nb), Append(q, Head(nb)), seen \cup {Head(nb)})

RECURSIVE BfsLoop(_, _, _)
BfsLoop(g, q, seen) ==
  IF q = <<>> THEN seen
  ELSE LET r == BfsNbrs(Nbrs(g, Head(q)), Tail(q), seen) IN BfsLoop(g, r.q, r.seen)

\* A search that stops after the start's direct neighbours.
bfs_OneHop(g, start) == {start} \cup SeqToSet(Nbrs(g, start))

\* bfs(adj, startId): the start is visited even when it is no node of the graph.
bfs(g, start) == BfsLoop(g, <<start>>, {start})

\* bfsSet(g, startId): empty unless the start is a node (a weighted graph is read
\* through Targets, the code's edge.to).
bfsSet(g, start) ==
  IF start = UNDEF \/ start = NoTerm \/ start \notin DOMAIN g THEN {}
  ELSE BfsLoop(g, <<start>>, {start})

\* -------------------------------------------------------- weighted graphs
Wire(id, a, b, kind, size, len, fault, cable, sl) ==
  [id |-> id, a |-> a, b |-> b, kind |-> kind, sizeMm2 |-> size, lengthM |-> len,
   fault |-> fault, cableType |-> cable, switchedLive |-> sl]

PX_PER_M == 100
CONTACT_R == 200000
HR_JOINT_R == 10000000

\* R_PER_M, per conductor family
R_PER_M(key) == IF key = "E" THEN 300000 ELSE 200000

\* R_PER_M_BY_SIZE; 0 stands for "not in the table"
R_PER_M_BY_SIZE(s) ==
  IF s = 10 THEN 180000 ELSE IF s = 15 THEN 121000 ELSE IF s = 25 THEN 74100
  ELSE IF s = 60 THEN 31000 ELSE IF s = 100 THEN 18300 ELSE IF s = 160 THEN 11500
  ELSE IF s = 250 THEN 6900 ELSE 0

getRPerM(s) == R_PER_M_BY_SIZE(s)

RECURSIVE ISqrtBin(_, _, _)
\* The largest r in lo..hi with r * r <= n.
ISqrtBin(n, lo, hi) ==
  IF lo = hi THEN lo
  ELSE LET mid == (lo + hi + 1) \div 2
       IN IF mid * mid <= n THEN ISqrtBin(n, mid, hi) ELSE ISqrtBin(n, lo, mid - 1)

ISqrt(n) == ISqrtBin(n, 0, IF n < 46340 THEN n ELSE 46340)

\* Math.hypot on integer pixel offsets, rounded down to a whole pixel.
Hypot(dx, dy) == ISqrt(dx * dx + dy * dy)

pxDistanceBetweenTerminals(comps, a, b) ==
  LET ha == terminalById(comps, a)
      hb == terminalById(comps, b)
      pa == componentTerminalAbsPos(ha.comp, ha.term)
      pb == componentTerminalAbsPos(hb.comp, hb.term)
  IN Hypot(pa.x - pb.x, pa.y - pb.y)

\* g.get(a).push({to: b, w}); g.get(b).push({to: a, w})   (a multigraph)
addW(g, a, b, w) ==
  LET d == DOMAIN g \cup {a, b}
      s1 == [n \in d |-> IF n = a THEN Append(Nbrs(g, n), [to |-> b, w |-> w]) ELSE Nbrs(g, n)]
  IN [n \in d |-> IF n = b THEN Append(s1[n], [to |-> a, w |-> w]) ELSE s1[n]]

WireKindMatches(w, key) ==
  LET k == IF w.switchedLive THEN "L" ELSE w.kind IN k = "GEN" \/ k = key

WireResistance(comps, w, key) ==
  LET rPerM == IF w.sizeMm2 # 0 /\ getRPerM(w.sizeMm2) # 0 THEN getRPerM(w.sizeMm2)
               ELSE R_PER_M(key)
      wire == IF w.lengthM > 0 THEN w.lengthM * rPerM
              ELSE (pxDistanceBetweenTerminals(comps, w.a, w.b) * rPerM) \div PX_PER_M
  IN wire + 2 * CONTACT_R + (IF w.fault = "hr" THEN HR_JOINT_R ELSE 0)

RECURSIVE AddWiresWeighted(_, _, _, _, _)
AddWiresWeighted(g, comps, ws, allowed, key) ==
  IF ws = <<>> THEN g
  ELSE LET w == Head(ws)
           ok == /\ w.fault # "open"
                 /\ TermTypeById(comps, w.a) \in allowed
                 /\ TermTypeById(comps, w.b) \in allowed
                 /\ WireKindMatches(w, key)
       IN AddWiresWeighted(IF ok THEN addW(g, w.a, w.b, WireResistance(comps, w, key)) ELSE g,
                           comps, Tail(ws), allowed, key)

RECURSIVE AddLinkEdgesW(_, _, _, _)
AddLinkEdgesW(g, c, links, allowed) ==
  IF links = <<>> THEN g
  ELSE LET n1 == Head(links)[1]
           n2 == Head(links)[2]
           ok == /\ HasTermNamed(c, n1) /\ HasTermNamed(c, n2)
                 /\ TermNamed(c, n1).t \in allowed /\ TermNamed(c, n2).t \in allowed
       IN AddLinkEdgesW(IF ok THEN addW(g, TermNamed(c, n1).id, TermNamed(c, n2).id, CONTACT_R)
                        ELSE g,
                        c, Tail(links), allowed)

RECURSIVE AddAllLinksW(_, _, _)
AddAllLinksW(g, comps, allowed) ==
  IF comps = <<>> THEN g
  ELSE AddAllLinksW(AddLinkEdgesW(g, Head(comps), InternalLinks(Head(comps)), allowed),
                    Tail(comps), allowed)

buildWeightedSubgraph(comps, ws, allowed, key) ==
  AddAllLinksW(AddWiresWeighted(EmptyGraph, comps, ws, allowed, key), comps, allowed)

\* ------------------------------------------------- shortest resistance
\* { R: Infinity, path: null }
NoPath == [inf |-> TRUE, R |-> 0, path |-> <<>>]

\* extract min: the first node of pq (in insertion order) with the least tentative distance
ExtractMin(pq, dist) ==
  pq[FirstIndex({i \in 1..Len(pq) : \A j \in 1..Len(pq) : dist[pq[i]] <= dist[pq[j]]})]

\* A relaxation that keeps the first tentative distance of a node and never lowers it.
RECURSIVE RelaxEdges_NoDecrease(_, _, _, _, _)
RelaxEdges_NoDecrease(edges, u, dist, prev, pq) ==
  IF edges = <<>> THEN [dist |-> dist, prev |-> prev, pq |-> pq]
  ELSE LET to == Head(edges).to
           alt == dist[u] + Head(edges).w
       IN IF to \notin DOMAIN dist
          THEN RelaxEdges_NoDecrease(Tail(edges), u, (to :> alt) @@ dist, (to :> u) @@ prev,
                                     Append(pq, to))
          ELSE RelaxEdges_NoDecrease(Tail(edges), u, dist, prev, pq)

RECURSIVE RelaxEdges(_, _, _, _, _)
\* for (const {to, w} of g.get(u)): relax each outgoing edge of u in turn
RelaxEdges(edges, u, dist, prev, pq) ==
  IF edges = <<>> THEN [dist |-> dist, prev |-> prev, pq |-> pq]
  ELSE LET to == Head(edges).to
           alt == dist[u] + Head(edges).w
       IN IF to \notin DOMAIN dist \/ alt < dist[to]
          THEN RelaxEdges(Tail(edges), u, (to :> alt) @@ dist, (to :> u) @@ prev,
                          IF to \in SeqToSet(pq) THEN pq ELSE Append(pq, to))
          ELSE RelaxEdges(Tail(edges), u, dist, prev, pq)

RECURSIVE DijkstraLoop(_, _, _, _, _)
\* while (pq.size): extract the minimum, stop at the goal, relax its edges
DijkstraLoop(g, goal, dist, prev, pq) ==
  IF pq = <<>> THEN [dist |-> dist, prev |-> prev]
  ELSE LET u == ExtractMin(pq, dist)
           rest == SelectSeq(pq, LAMBDA v : v # u)
       IN IF u = goal THEN [dist |-> dist, prev |-> prev]
          ELSE LET r == RelaxEdges(g[u], u, dist, prev, rest)
               IN DijkstraLoop(g, goal, r.dist, r.prev, r.pq)

RECURSIVE PathBack(_, _, _)
\* for (v = goal; v !== undefined; v = prev.get(v)): the nodes from v back to start
PathBack(prev, start, v) ==
  IF v = start \/ v \notin DOMAIN prev THEN <<v>>
  ELSE <<v>> \o PathBack(prev, start, prev[v])

Reverse(s) == [i \in 1..Len(s) |-> s[Len(s) + 1 - i]]

\* dijkstraWeighted(g, start, goal): { R, path }
dijkstraWeighted(g, start, goal) ==
  IF start \in {UNDEF, NoTerm} \/ goal \in {UNDEF, NoTerm}
     \/ start \notin DOMAIN g \/ goal \notin DOMAIN g
  THEN NoPath
  ELSE LET r == DijkstraLoop(g, goal, (start :> 0), <<>>, <<start>>)
       IN IF goal \notin DOMAIN r.dist THEN NoPath
          ELSE [inf |-> FALSE, R |-> r.dist[goal],
                path |-> Reverse(PathBack(r.prev, start, goal))]

\* measureResistance(components, wires, a, b): the reading of each family
measureResistance(comps, ws, a, b) ==
  [k \in Families |-> dijkstraWeighted(buildWeightedSubgraph(comps, ws, FamilySet(k), k), a, b)]

\* The neighbour lists of a weighted graph, weights dropped (edge.to ?? edge).
Targets(g) == [n \in DOMAIN g |-> [i \in 1..Len(g[n]) |-> g[n][i].to]]

RECURSIVE DfsNbrs_ParentCounts(_, _, _, _, _)
\* A search that does not pass over the edge it arrived by.
DfsNbrs_ParentCounts(g, v, parent, nb, st) ==
  IF nb = <<>> THEN st
  ELSE LET u == Head(nb) IN
       IF u \notin st.visited
       THEN DfsNbrs_ParentCounts(g, v, parent, Tail(nb),
                    DfsNbrs_ParentCounts(g, u, v, Nbrs(g, u), [st EXCEPT !.visited = @ \cup {u}]))
       ELSE DfsNbrs_ParentCounts(g, v, parent, Tail(nb), [st EXCEPT !.cycle = TRUE])

RECURSIVE DfsNbrs(_, _, _, _, _)
\* dfs(v, parent) of hasCycleThrough, from the position nb in v's neighbour list.
DfsNbrs(g, v, parent, nb, st) ==
  IF nb = <<>> THEN st
  ELSE LET u == Head(nb) IN
       IF u = parent THEN DfsNbrs(g, v, parent, Tail(nb), st)
       ELSE IF u \notin st.visited
            THEN DfsNbrs(g, v, parent, Tail(nb),
                         DfsNbrs(g, u, v, Nbrs(g, u), [st EXCEPT !.visited = @ \cup {u}]))
            ELSE DfsNbrs(g, v, parent, Tail(nb), [st EXCEPT !.cycle = TRUE])

RECURSIVE DfsFirstBranch(_, _, _, _, _)
\* A search that returns from a node as soon as its first unvisited neighbour is done.
DfsFirstBranch(g, v, parent, nb, st) ==
  IF nb = <<>> THEN st
  ELSE LET u == Head(nb) IN
       IF u = parent THEN DfsFirstBranch(g, v, parent, Tail(nb), st)
       ELSE IF u \notin st.visited
            THEN DfsFirstBranch(g, u, v, Nbrs(g, u), [st EXCEPT !.visited = @ \cup {u}])
            ELSE DfsFirstBranch(g, v, parent, Tail(nb), [st EXCEPT !.cycle = TRUE])

hasCycleThrough_FirstBranch(gw, start) ==
  IF start = UNDEF \/ start = NoTerm \/ start \notin DOMAIN gw THEN FALSE
  ELSE DfsFirstBranch(Targets(gw), start, NoTerm, Nbrs(Targets(gw), start),
                      [visited |-> {start}, cycle |-> FALSE]).cycle

hasCycleThrough(gw, start) ==
  IF start = UNDEF \/ start = NoTerm \/ start \notin DOMAIN gw THEN FALSE
  ELSE DfsNbrs(Targets(gw), start, NoTerm, Nbrs(Targets(gw), start),
               [visited |-> {start}, cycle |-> FALSE]).cycle

degreeIn(gw, n) == Len(Nbrs(gw, n))

SocketTypes == {"SOCKET_1G", "SOCKET_2G"}

socketLineTermIds(c) ==
  IF c.type \notin SocketTypes THEN <<>>
  ELSE LET idx == SelectSeqBy([i \in 1..Len(c.terminals) |-> i],
                              {i \in 1..Len(c.terminals) : c.terminals[i].t \in LineTermTypes})
       IN [j \in 1..Len(idx) |-> c.terminals[idx[j]].id]

\* ------------------------------------------------------------ cable sizing
\* CPC size of a twin-and-earth cable, by line size
cpcSizeForBundle(lineSize) ==
  IF lineSize = 10 THEN 10 ELSE IF lineSize = 15 THEN 10
  ELSE IF lineSize = 25 THEN 15 ELSE IF lineSize = 60 THEN 25 ELSE lineSize

requiredCSAForTerminal(c, t, reg) ==
  LET isE == t.t \in EarthTermTypes
      isLN == t.t \in LineTermTypes \cup NeutralTermTypes
      UK == reg = "UK"
  IN IF ~isE /\ ~isLN THEN 0
     ELSE IF c.type \in SocketTypes THEN (IF isE THEN 15 ELSE 25)
     ELSE IF c.type \in {"LAMP", "SWITCH_1WAY", "SWITCH_2WAY", "SWITCH_INTERMEDIATE"}
          THEN (IF UK THEN 10 ELSE 15)
     ELSE IF c.type = "SUPPLY" THEN (IF UK THEN (IF isE THEN 160 ELSE 250) ELSE 0)
     ELSE IF c.type \in {"CONSUMER_UNIT", "CONSUMER_UNIT_SPLIT"}
          THEN (IF UK /\ t.name \in {"L", "N", "E"}
                THEN (IF t.name = "E" THEN 160 ELSE 250) ELSE 0)
     ELSE 0

wireRequiredMinCSA(comps, w, reg) ==
  IF ~HasTerminal(comps, w.a) \/ ~HasTerminal(comps, w.b) THEN 0
  ELSE LET ta == terminalById(comps, w.a)
           tb == terminalById(comps, w.b)
           req == Max2(Max2(requiredCSAForTerminal(ta.comp, ta.term, reg),
                            requiredCSAForTerminal(tb.comp, tb.term, reg)), 0)
       IN IF reg = "UK" /\ w.cableType = "Bonding" /\ w.kind = "E" THEN Max2(req, 100) ELSE req

\* A test that takes a wire with no declared size for one of size zero.
isWireUndersized_NoSizeFlagged(comps, w, reg) ==
  LET req == wireRequiredMinCSA(comps, w, reg)
  IN IF req = 0 THEN FALSE ELSE w.sizeMm2 < req

isWireUndersized(comps, w, reg) ==
  LET req == wireRequiredMinCSA(comps, w, reg)
  IN IF w.sizeMm2 = 0 \/ req = 0 THEN FALSE ELSE w.sizeMm2 < req

\* ---------------------------------------------------------------- analysis
\* Indices 1..n that satisfy a test, in order.
FilterIdx(n, keep) == SelectSeqBy([i \in 1..n |-> i], keep)

HasType(comps, types) == \E i \in 1..Len(comps) : comps[i].type \in types

\* components.find(c => c.type in types)
FindType(comps, types) ==
  comps[FirstIndex({k \in 1..Len(comps) : comps[k].type \in types})]

EmptyResults ==
  [shorts |-> <<>>, lamps |-> <<>>, earth |-> <<>>, ring |-> <<>>, neShort |-> FALSE,
   validator |-> [defined |-> FALSE, ringSockets |-> <<>>, spurSockets |-> <<>>,
                  isolatedSockets |-> <<>>, undersized |-> <<>>]]

\* Line graph used by the ring / spur validator
LineGraphW(comps, ws) == buildWeightedSubgraph(comps, ws, LineTermTypes, "L")

\* "ring", "spur", "isolated", or "none" for a component that is no socket
SocketClass(comps, ws, supplyL, c) ==
  LET gLw == LineGraphW(comps, ws)
      ringReachL == bfsSet(Targets(gLw), supplyL)
      tids == socketLineTermIds(c)
      inRing == {i \in 1..Len(tids) : tids[i] \in ringReachL /\ degreeIn(gLw, tids[i]) > 0}
      anyDeg == \E i \in 1..Len(tids) : degreeIn(gLw, tids[i]) > 0
  IN IF Len(tids) = 0 THEN "none"
     ELSE IF Cardinality(inRing) >= 2 THEN "ring"
     ELSE IF Cardinality(inRing) = 1 THEN "spur"
     ELSE IF anyDeg THEN "spur" ELSE "isolated"

SocketsOfClass(comps, ws, supplyL, cls) ==
  LET idx == FilterIdx(Len(comps),
                       {i \in 1..Len(comps) : SocketClass(comps, ws, supplyL, comps[i]) = cls})
  IN [j \in 1..Len(idx) |-> comps[idx[j]].id]

\* The wires the sizing check reports, in wire order.
UndersizedWires(comps, ws, reg) ==
  LET bad == {i \in 1..Len(ws) :
                /\ HasTerminal(comps, ws[i].a) /\ HasTerminal(comps, ws[i].b)
                /\ ws[i].sizeMm2 # 0
                /\ wireRequiredMinCSA(comps, ws[i], reg) # 0
                /\ ws[i].sizeMm2 < wireRequiredMinCSA(comps, ws[i], reg)}
      idx == FilterIdx(Len(ws), bad)
  IN [j \in 1..Len(idx) |-> ws[idx[j]].id]

\* The body of the analysis memo once a reference component has been found.
AnalysisFrom(comps, ws, reg, supply) ==
  LET supplyL == termIdByName(supply, "L")
      supplyN == termIdByName(supply, "N")
      supplyE == termIdByName(supply, "E")
      adj == buildAdjacency(comps, ws)
      reachL == IF supplyL # UNDEF THEN bfs(adj, supplyL) ELSE {}
      reachN == IF supplyN # UNDEF THEN bfs(adj, supplyN) ELSE {}
      reachE == IF supplyE # UNDEF THEN bfs(adj, supplyE) ELSE {}
      shorts == (IF supplyL # UNDEF /\ supplyN \in reachL THEN <<"L-N">> ELSE <<>>)
                \o (IF supplyL # UNDEF /\ supplyE \in reachL THEN <<"L-E">> ELSE <<>>)
      gLw == buildWeightedSubgraph(comps, ws, LineTermTypes, "L")
      gNw == buildWeightedSubgraph(comps, ws, NeutralTermTypes, "N")
      gEw == buildWeightedSubgraph(comps, ws, EarthTermTypes, "E")
      lampIdx == FilterIdx(Len(comps), {i \in 1..Len(comps) : comps[i].type = "LAMP"})
      otherIdx == FilterIdx(Len(comps),
                    {i \in 1..Len(comps) :
                       /\ comps[i].type # "LAMP"
                       /\ \E t \in SeqToSet(comps[i].terminals) : t.t = "E"})
      LampOn(c) == /\ termIdByName(c, "L") # UNDEF /\ termIdByName(c, "N") # UNDEF
                   /\ termIdByName(c, "L") \in reachL /\ termIdByName(c, "N") \in reachN
                   /\ shorts = <<>>
      LampEarth(c) == termIdByName(c, "E") # UNDEF /\ termIdByName(c, "E") \in reachE
      OtherEarth(c) == \E t \in SeqToSet(c.terminals) : t.t = "E" /\ t.id \in reachE
  IN [shorts |-> shorts,
      lamps |-> [j \in 1..Len(lampIdx) |->
                   [id |-> comps[lampIdx[j]].id, on |-> LampOn(comps[lampIdx[j]])]],
      earth |-> [j \in 1..Len(lampIdx) |->
                   [id |-> comps[lampIdx[j]].id, ok |-> LampEarth(comps[lampIdx[j]])]]
                \o [j \in 1..Len(otherIdx) |->
                      [id |-> comps[otherIdx[j]].id, ok |-> OtherEarth(comps[otherIdx[j]])]],
      ring |-> [L |-> hasCycleThrough(gLw, supplyL), N |-> hasCycleThrough(gNw, supplyN),
                E |-> hasCycleThrough(gEw, supplyE)],
      neShort |-> (supplyN # UNDEF /\ supplyE \in reachN),
      validator |-> [defined |-> TRUE,
                     ringSockets |-> SocketsOfClass(comps, ws, supplyL, "ring"),
                     spurSockets |-> SocketsOfClass(comps, ws, supplyL, "spur"),
                     isolatedSockets |-> SocketsOfClass(comps, ws, supplyL, "isolated"),
                     undersized |-> UndersizedWires(comps, ws, reg)]]

\* const supply = components.find(c => c.type === SUPPLY); if (!supply) return results
Analysis(comps, ws, reg) ==
  IF ~HasType(comps, {"SUPPLY"}) THEN EmptyResults
  ELSE AnalysisFrom(comps, ws, reg, FindType(comps, {"SUPPLY"}))

\* The reference of measureVoltage: the first Supply, else the first consumer unit.
HasReference(comps) == HasType(comps, {"SUPPLY", "CONSUMER_UNIT", "CONSUMER_UNIT_SPLIT"})

measureVoltageReference(comps) ==
  IF HasType(comps, {"SUPPLY"}) THEN FindType(comps, {"SUPPLY"})
  ELSE FindType(comps, {"CONSUMER_UNIT", "CONSUMER_UNIT_SPLIT"})

SYSTEM_V == 230
\* A potential that is null (floating node)
NullV == -1

\* termIdByName(supply, n) || supply.terminals.find(t => t.t === n)?.id, looked up again
\* with terminalById
ReferenceTerminal(comps, supply, n) ==
  LET cand == IF termIdByName(supply, n) # UNDEF THEN termIdByName(supply, n)
              ELSE TermIdByType(supply, n)
  IN IF cand # UNDEF /\ HasTerminal(comps, cand) THEN cand ELSE UNDEF

\* measureVoltage(components, wires, a, b): null, or {Va, Vb, Vab}
measureVoltage(comps, ws, a, b) ==
  IF ~HasReference(comps) THEN [null |-> TRUE, Va |-> NullV, Vb |-> NullV, Vab |-> NullV]
  ELSE
    LET supply == measureVoltageReference(comps)
        supplyL == ReferenceTerminal(comps, supply, "L")
        supplyN == ReferenceTerminal(comps, supply, "N")
        supplyE == ReferenceTerminal(comps, supply, "E")
        rL == IF supplyL # UNDEF
              THEN bfsSet(buildTypedSubgraph(comps, ws, LineTermTypes), supplyL) ELSE {}
        rN == IF supplyN # UNDEF
              THEN bfsSet(buildTypedSubgraph(comps, ws, NeutralTermTypes), supplyN) ELSE {}
        rE == IF supplyE # UNDEF
              THEN bfsSet(buildTypedSubgraph(comps, ws, EarthTermTypes), supplyE) ELSE {}
        nodeV(tid) == IF tid \in rL THEN SYSTEM_V
                      ELSE IF tid \in rN \/ tid \in rE THEN 0 ELSE NullV
    IN [null |-> FALSE, Va |-> nodeV(a), Vb |-> nodeV(b),
        Vab |-> IF nodeV(a) = NullV \/ nodeV(b) = NullV THEN NullV
                ELSE Abs(nodeV(a) - nodeV(b))]

\* ---------------------------------------------------------------- geometry
Pt(x, y) == [x |-> x, y |-> y]

Dist2(p, q) == (p.x - q.x) * (p.x - q.x) + (p.y - q.y) * (p.y - q.y)

Dot(p, a, b) == (p.x - a.x) * (b.x - a.x) + (p.y - a.y) * (b.y - a.y)

Cross(p, a, b) == Abs((p.x - a.x) * (b.y - a.y) - (p.y - a.y) * (b.x - a.x))

RECURSIVE FracLess(_, _, _, _)
\* a/b < c/d for a, c >= 0 and b, d > 0, by continued fractions (no large products).
FracLess(a, b, c, d) ==
  LET qa == a \div b
      qc == c \div d
      ra == a % b
      rc == c % d
  IN IF qa # qc THEN qa < qc
     ELSE IF rc = 0 THEN FALSE
     ELSE IF ra = 0 THEN TRUE
     ELSE FracLess(d, rc, b, ra)

\* distanceToSegment(point, a, b) <= tol, decided on the squares.
WithinSegment(p, a, b, tol) ==
  LET ab2 == Dist2(a, b)
      dot == Dot(p, a, b)
  IN IF ab2 = 0 \/ dot <= 0 THEN Dist2(p, a) <= tol * tol
     ELSE IF dot >= ab2 THEN Dist2(p, b) <= tol * tol
     ELSE Cross(p, a, b) <= ISqrt(tol * tol * ab2)

\* distanceToSegment squared, as a fraction [num, den]; used for points within tolerance.
distanceToSegment(p, a, b) ==
  LET ab2 == Dist2(a, b)
      dot == Dot(p, a, b)
  IN IF ab2 = 0 \/ dot <= 0 THEN [num |-> Dist2(p, a), den |-> 1]
     ELSE IF dot >= ab2 THEN [num |-> Dist2(p, b), den |-> 1]
     ELSE [num |-> Cross(p, a, b) * Cross(p, a, b), den |-> ab2]

\* The projection has whole-pixel coordinates (the model's junctions sit on whole pixels).
ProjectionIsIntegral(p, a, b) ==
  LET ab2 == Dist2(a, b)
      dot == Dot(p, a, b)
  IN IF ab2 = 0 \/ dot <= 0 \/ dot >= ab2 THEN TRUE
     ELSE (dot * (b.x - a.x)) % ab2 = 0 /\ (dot * (b.y - a.y)) % ab2 = 0

projectPointOnSegment(p, a, b) ==
  LET ab2 == Dist2(a, b)
      dot == Dot(p, a, b)
  IN IF ab2 = 0 \/ dot <= 0 THEN a
     ELSE IF dot >= ab2 THEN b
     ELSE Pt(a.x + (dot * (b.x - a.x)) \div ab2, a.y + (dot * (b.y - a.y)) \div ab2)

TermPos(comps, tid) ==
  LET h == terminalById(comps, tid) IN componentTerminalAbsPos(h.comp, h.term)

WireIsHit(comps, w, p, tol) ==
  /\ HasTerminal(comps, w.a) /\ HasTerminal(comps, w.b)
  /\ WithinSegment(p, TermPos(comps, w.a), TermPos(comps, w.b), tol)

WireDist(comps, w, p) == distanceToSegment(p, TermPos(comps, w.a), TermPos(comps, w.b))

\* hitTestWireAtPoint: index of the nearest wire within tolerance (the first among equals), 0 if none.
hitTestWireAtPoint(ws, comps, p, tol) ==
  LET hits == {i \in 1..Len(ws) : WireIsHit(comps, ws[i], p, tol)}
      Nearer(i, j) == LET di == WireDist(comps, ws[i], p)
                          dj == WireDist(comps, ws[j], p)
                      IN FracLess(di.num, di.den, dj.num, dj.den)
  IN IF hits = {} THEN 0
     ELSE CHOOSE i \in hits :
            /\ \A j \in hits : ~Nearer(j, i)
            /\ \A j \in hits : j < i => Nearer(i, j)

\* ----------------------------------------------------------------- cutting
SNAP_TOLERANCE == 8
SCISSORS_TOLERANCE == 12

NoCut == [ok |-> FALSE]

\* A cut whose junction has no internal link between its two terminals.
cutWireAt_NoLink(comps, wire, point, i) ==
  IF ~HasTerminal(comps, wire.a) \/ ~HasTerminal(comps, wire.b) THEN NoCut
  ELSE
    LET pa == TermPos(comps, wire.a)
        pb == TermPos(comps, wire.b)
        cutPoint == projectPointOnSegment(point, pa, pb)
        terminalType == terminalById(comps, wire.a).term.t
        junction == [Comp(i, "JUNCTION", cutPoint.x, cutPoint.y,
                          << Term(i + 1, terminalType \o "1", terminalType, -2, 0),
                             Term(i + 2, terminalType \o "2", terminalType, 2, 0) >>,
                          NoState, "arr", <<>>)
                       EXCEPT !.hidden = TRUE, !.showHandles = TRUE]
    IN IF Dist2(point, pa) < SNAP_TOLERANCE * SNAP_TOLERANCE
          \/ Dist2(point, pb) < SNAP_TOLERANCE * SNAP_TOLERANCE
       THEN NoCut
       ELSE [ok |-> TRUE, junction |-> junction, removedWireId |-> wire.id,
             newWires |-> << [wire EXCEPT !.id = i + 3, !.b = i + 1],
                             [wire EXCEPT !.id = i + 4, !.a = i + 2] >>]

\* cutWireAt(wire, point): null, or the junction and the two replacement wires.
\* Every caller passes createVisibleJunction: false, so the junction is hidden.
\* Ids are drawn in the order junction, terminal 1, terminal 2, wire 1, wire 2.
cutWireAt(comps, wire, point, i) ==
  IF ~HasTerminal(comps, wire.a) \/ ~HasTerminal(comps, wire.b) THEN NoCut
  ELSE
    LET pa == TermPos(comps, wire.a)
        pb == TermPos(comps, wire.b)
        cutPoint == projectPointOnSegment(point, pa, pb)
        terminalType == terminalById(comps, wire.a).term.t
        n1 == terminalType \o "1"
        n2 == terminalType \o "2"
        junction == [Comp(i, "JUNCTION", cutPoint.x, cutPoint.y,
                          << Term(i + 1, n1, terminalType, -2, 0),
                             Term(i + 2, n2, terminalType, 2, 0) >>,
                          NoState, "arr", << <<n1, n2>> >>)
                       EXCEPT !.hidden = TRUE, !.showHandles = TRUE]
        wire1 == [wire EXCEPT !.id = i + 3, !.b = i + 1]
        wire2 == [wire EXCEPT !.id = i + 4, !.a = i + 2]
    IN IF Dist2(point, pa) < SNAP_TOLERANCE * SNAP_TOLERANCE
          \/ Dist2(point, pb) < SNAP_TOLERANCE * SNAP_TOLERANCE
       THEN NoCut
       ELSE [ok |-> TRUE, junction |-> junction, removedWireId |-> wire.id,
             newWires |-> <<wire1, wire2>>]

\* ----------------------------------------------------------------- presets
PresetWire(id, a, b, kind, size, cable) == Wire(id, a, b, kind, size, 0, "none", cable, FALSE)

\* Presets.GOOD_RING.make(): the socket ends are looked up by the names "L", "N", "E".
GOOD_RING(i) ==
  LET sup == makeSupply(40, 40, i)
      s1 == makeSocket2G(200, 60, i + 4)
      s2 == makeSocket2G(400, 60, i + 11)
      T(c, n) == termIdByName(c, n)
      Ring(j, n, size) ==
        << PresetWire(j, T(sup, n), T(s1, n), n, size, "T&E"),
           PresetWire(j + 1, T(s1, n), T(s2, n), n, size, "T&E"),
           PresetWire(j + 2, T(s2, n), T(sup, n), n, size, "T&E") >>
  IN [components |-> <<sup, s1, s2>>,
      wires |-> Ring(i + 18, "L", 25) \o Ring(i + 21, "N", 25) \o Ring(i + 24, "E", 15),
      ids |-> 27]

BROKEN_NEUTRAL(i) ==
  LET sup == makeSupply(40, 40, i)
      lamp == makeLamp(220, 60, i + 4)
  IN [components |-> <<sup, lamp>>,
      wires |-> << PresetWire(i + 8, termIdByName(sup, "L"), termIdByName(lamp, "L"), "L", 0, ""),
                   PresetWire(i + 9, termIdByName(sup, "E"), termIdByName(lamp, "E"), "E", 0, "") >>,
      ids |-> 10]

RING_FROM_CU(i) ==
  LET n == 3 * CUWays + 4
      cu == makeConsumerUnit(40, 260, i)
      s1 == makeSocket2G(360, 260, i + n)
      s2 == makeSocket2G(560, 260, i + n + 7)
      Ring(j, hub, type, kind, size) ==
        << PresetWire(j, hub, TermIdByType(s1, type), kind, size, "T&E"),
           PresetWire(j + 1, TermIdByType(s1, type), TermIdByType(s2, type), kind, size, "T&E"),
           PresetWire(j + 2, TermIdByType(s2, type), hub, kind, size, "T&E") >>
      w0 == i + n + 14
  IN [components |-> <<cu, s1, s2>>,
      wires |-> Ring(w0, termIdByName(cu, "LOUT3"), "LIN", "L", 25)
                \o Ring(w0 + 3, termIdByName(cu, "N1"), "NIN", "N", 25)
                \o Ring(w0 + 6, termIdByName(cu, "E1"), "EIN", "E", 15),
      ids |-> n + 23]

PresetKeys == {"GOOD_RING", "BROKEN_NEUTRAL", "RING_FROM_CU"}

Presets(key, i) ==
  IF key = "GOOD_RING" THEN GOOD_RING(i)
  ELSE IF key = "BROKEN_NEUTRAL" THEN BROKEN_NEUTRAL(i)
  ELSE RING_FROM_CU(i)

\* ---------------------------------------------------------- event handlers
\* What the running event handler has left to do: nothing (Idle), nothing ever again
\* (an updater threw while rendering and the tree was unmounted), or the rest of a
\* splice whose state updates are rendered one by one.
Idle == [kind |-> "idle"]
Crashed == [kind |-> "crashed"]

\* ----------------------------------------------------------------- history
\* structuredClone rejects a snapshot holding a function, and the JSON fallback drops
\* function-valued internalLinks; without a function the clone is an exact copy.
deepCloneState(st) ==
  IF \E k \in 1..Len(st.components) : st.components[k].il = "fn"
  THEN [st EXCEPT !.components =
          [k \in 1..Len(st.components) |->
             IF st.components[k].il = "fn" THEN [st.components[k] EXCEPT !.il = "none"]
             ELSE st.components[k]]]
  ELSE st

pushHistory ==
  /\ undoStack' = Append(undoStack, deepCloneState([components |-> components, wires |-> wires]))
  /\ redoStack' = <<>>

undo ==
  /\ undoStack # <<>>
  /\ redoStack' = Append(redoStack, [components |-> components, wires |-> wires])
  /\ undoStack' = SubSeq(undoStack, 1, Len(undoStack) - 1)
  /\ components' = undoStack[Len(undoStack)].components
  /\ wires' = undoStack[Len(undoStack)].wires
  /\ pending' = NoTerm
  /\ UNCHANGED <<nextId, region, simMode, handler>>

\* A redo that does not put the state it leaves on the undo stack.
redo_ForgetsCurrent ==
  /\ redoStack # <<>>
  /\ UNCHANGED undoStack
  /\ redoStack' = SubSeq(redoStack, 1, Len(redoStack) - 1)
  /\ components' = redoStack[Len(redoStack)].components
  /\ wires' = redoStack[Len(redoStack)].wires
  /\ pending' = NoTerm
  /\ UNCHANGED <<nextId, region, simMode, handler>>

redo ==
  /\ redoStack # <<>>
  /\ undoStack' = Append(undoStack, [components |-> components, wires |-> wires])
  /\ redoStack' = SubSeq(redoStack, 1, Len(redoStack) - 1)
  /\ components' = redoStack[Len(redoStack)].components
  /\ wires' = redoStack[Len(redoStack)].wires
  /\ pending' = NoTerm
  /\ UNCHANGED <<nextId, region, simMode, handler>>

\* ------------------------------------------------------------ save and load
\* A JSON text is represented by the value JSON.parse returns for it. JSON.stringify
\* leaves out every property whose value is a function, so a component whose
\* internalLinks is a closure is written without internalLinks.
JSONstringify(st) ==
  [st EXCEPT !.components =
     [k \in 1..Len(st.components) |->
        IF st.components[k].il = "fn" THEN [st.components[k] EXCEPT !.il = "none"]
        ELSE st.components[k]]]

\* exportState(), and the state parameter of the share link
exportState == JSONstringify([components |-> components, wires |-> wires])

\* importState(json), for a text with a components array and a wires array
importState(json) ==
  /\ components' = json.components
  /\ wires' = json.wires
  /\ pending' = NoTerm
  /\ UNCHANGED <<undoStack, redoStack, nextId, region, simMode, handler>>

\* ------------------------------------------------------------------ editing
ToolboxType(kind) ==
  IF kind = "supply" THEN "SUPPLY"
  ELSE IF kind = "lamp" THEN "LAMP"
  ELSE IF kind = "switch_1g_1w" THEN "SWITCH_1WAY"
  ELSE IF kind = "switch_1g_2w" THEN "SWITCH_2WAY"
  ELSE IF kind = "switch_intermediate" THEN "SWITCH_INTERMEDIATE"
  ELSE IF kind = "connector_L3" THEN "CONNECTOR_L3"
  ELSE IF kind = "connector_N3" THEN "CONNECTOR_N3"
  ELSE IF kind = "consumer_unit_split" THEN "CONSUMER_UNIT_SPLIT"
  ELSE IF kind = "connector_E3" THEN "CONNECTOR_E3"
  ELSE IF kind = "wago_L3" THEN "WAGO_L3"
  ELSE IF kind = "wago_N3" THEN "WAGO_N3"
  ELSE IF kind = "wago_E3" THEN "WAGO_E3"
  ELSE IF kind = "wago_L5" THEN "WAGO_L5"
  ELSE IF kind = "wago_N5" THEN "WAGO_N5"
  ELSE IF kind = "wago_E5" THEN "WAGO_E5"
  ELSE IF kind = "socket_1g" THEN "SOCKET_1G"
  ELSE IF kind = "socket_2g" THEN "SOCKET_2G"
  ELSE IF kind = "consumer_unit" THEN "CONSUMER_UNIT"
  ELSE "none"

\* addToolboxItem + addComponent: an unknown kind has no maker and adds nothing.
addToolboxItem(kind) ==
  /\ IF ToolboxType(kind) = "none"
     THEN UNCHANGED <<components, nextId>>
     ELSE /\ components' = Append(components, Make(ToolboxType(kind), 120, 120, nextId))
          /\ nextId' = nextId + IdsOf(ToolboxType(kind))
  /\ UNCHANGED <<wires, pending, undoStack, redoStack, region, simMode, handler>>

\* An error thrown out of a handler.
Thrown(name) == [kind |-> "thrown", name |-> name]

\* A toolbox button is pressed: its onClick, addToolboxItem(it), is about to run.
toolboxPress(kind) ==
  /\ handler = Idle
  /\ handler' = [kind |-> "toolbox", item |-> kind]
  /\ UNCHANGED <<components, wires, pending, undoStack, redoStack, nextId, region, simMode>>

\* addToolboxItem(it) runs to its end: the switch finds a maker or leaves it null,
\* 'if (maker) addComponent(maker)', and the handler returns.
toolboxRun ==
  /\ handler.kind = "toolbox"
  /\ IF ToolboxType(handler.item) = "none"
     THEN UNCHANGED <<components, nextId>>
     ELSE /\ components' = Append(components, Make(ToolboxType(handler.item), 120, 120, nextId))
          /\ nextId' = nextId + IdsOf(ToolboxType(handler.item))
  /\ handler' = Idle
  /\ UNCHANGED <<wires, pending, undoStack, redoStack, region, simMode>>

DEFAULT_WIRE_SIZE == 25
DEFAULT_LENGTH_M == 5

\* onTerminalClick(tid) in free mode, single-wire workflow; kind, size and cable are
\* the palette settings (currentKind, currentWireSize, currentCableType).
onTerminalClick(tid, kind, size, cable) ==
  IF pending # NoTerm /\ pending = tid
  THEN /\ pending' = NoTerm
       /\ UNCHANGED <<components, wires, undoStack, redoStack, nextId, region, simMode, handler>>
  ELSE IF pending = NoTerm
  THEN /\ pending' = tid
       /\ UNCHANGED <<components, wires, undoStack, redoStack, nextId, region, simMode, handler>>
  ELSE IF ~\E k \in 1..Len(wires) :
             \/ wires[k].a = pending /\ wires[k].b = tid
             \/ wires[k].a = tid /\ wires[k].b = pending
  THEN IF simMode = "learning" /\ size = 0
       THEN /\ pending' = NoTerm
            /\ UNCHANGED <<components, wires, undoStack, redoStack, nextId, region, simMode, handler>>
       ELSE
       /\ pushHistory
       /\ wires' = Append(wires,
                          Wire(nextId, pending, tid, kind,
                               IF size # 0 THEN size ELSE DEFAULT_WIRE_SIZE,
                               DEFAULT_LENGTH_M, "none", cable, FALSE))
       /\ nextId' = nextId + 1
       /\ pending' = NoTerm
       /\ UNCHANGED <<components, region, simMode, handler>>
  ELSE /\ pending' = NoTerm
       /\ UNCHANGED <<components, wires, undoStack, redoStack, nextId, region, simMode, handler>>

\* The split-load unit's MAIN, RCD A and RCD B buttons: pushHistory, then the flag
\* of component k is inverted.
toggleSplitFlag(k, flag) ==
  /\ k \in 1..Len(components)
  /\ components[k].type = "CONSUMER_UNIT_SPLIT"
  /\ pushHistory
  /\ components' = [components EXCEPT ![k].state =
        IF flag = "mainOn" THEN [@ EXCEPT !.mainOn = ~@]
        ELSE IF flag = "rcdAOn" THEN [@ EXCEPT !.rcdAOn = ~@]
        ELSE [@ EXCEPT !.rcdBOn = ~@]]
  /\ UNCHANGED <<wires, pending, nextId, region, simMode, handler>>

\* The MCB button of way i: pushHistory, then closed is inverted.
toggleSplitWay(k, i) ==
  /\ k \in 1..Len(components)
  /\ components[k].type = "CONSUMER_UNIT_SPLIT"
  /\ i \in 1..Len(components[k].state.ways)
  /\ pushHistory
  /\ components' = [components EXCEPT ![k].state.ways[i].closed = ~@]
  /\ UNCHANGED <<wires, pending, nextId, region, simMode, handler>>

\* The RCBO flag of way i is inverted (no history entry).
toggleSplitRcbo(k, i) ==
  /\ k \in 1..Len(components)
  /\ components[k].type = "CONSUMER_UNIT_SPLIT"
  /\ i \in 1..Len(components[k].state.ways)
  /\ components' = [components EXCEPT ![k].state.ways[i].rcbo = ~@]
  /\ UNCHANGED <<wires, pending, undoStack, redoStack, nextId, region, simMode, handler>>

\* The mode selector: setSimMode(e.target.value).
setSimMode(m) ==
  /\ simMode' = m
  /\ UNCHANGED <<components, wires, pending, undoStack, redoStack, nextId, region, handler>>

\* The fault buttons of the selected wire (selection.wires[0] = wires[k].id).
setFault(k, f) ==
  /\ k \in 1..Len(wires)
  /\ pushHistory
  /\ wires' = [j \in 1..Len(wires) |->
                 IF wires[j].id = wires[k].id THEN [wires[j] EXCEPT !.fault = f] ELSE wires[j]]
  /\ UNCHANGED <<components, pending, nextId, region, simMode, handler>>

\* The component a toggle puts in the place of x.
toggled(x) ==
  IF x.type = "SWITCH_1WAY" THEN [x EXCEPT !.state = [NoState EXCEPT !.on = ~x.state.on]]
  ELSE IF x.type \in {"SWITCH_2WAY", "SWITCH_INTERMEDIATE"}
  THEN [x EXCEPT !.state = [NoState EXCEPT !.pos = IF x.state.pos = 0 THEN 1 ELSE 0]]
  ELSE x

toggleSwitch(k) ==
  /\ k \in 1..Len(components)
  /\ components' = [j \in 1..Len(components) |->
                      IF components[j].id # components[k].id THEN components[j]
                      ELSE toggled(components[j])]
  /\ UNCHANGED <<wires, pending, undoStack, redoStack, nextId, region, simMode, handler>>

removeSelected(selComps, selWires) ==
  /\ selComps \cup selWires # {}
  /\ pushHistory
  /\ LET termIdsToPurge ==
           UNION {{t.id : t \in SeqToSet(components[k].terminals)} :
                    k \in {j \in 1..Len(components) : components[j].id \in selComps}}
         keepC == {k \in 1..Len(components) : components[k].id \notin selComps}
         keepW == {k \in 1..Len(wires) :
                     /\ wires[k].id \notin selWires
                     /\ wires[k].a \notin termIdsToPurge
                     /\ wires[k].b \notin termIdsToPurge}
         ci == FilterIdx(Len(components), keepC)
         wi == FilterIdx(Len(wires), keepW)
     IN /\ components' = [j \in 1..Len(ci) |-> components[ci[j]]]
        /\ wires' = [j \in 1..Len(wi) |-> wires[wi[j]]]
  /\ pending' = NoTerm
  /\ UNCHANGED <<nextId, region, simMode, handler>>

\* The wire the scissors hit at p, as an index into wires (0: none).
ScissorsTarget(p) == hitTestWireAtPoint(wires, components, p, SCISSORS_TOLERANCE)

\* A scissors click that adds the junction and the two halves but leaves the cut wire.
scissorsClick_KeepOriginal(p) ==
  LET k == ScissorsTarget(p)
      res == cutWireAt(components, wires[k], p, nextId)
  IN IF k = 0 \/ ~res.ok
     THEN UNCHANGED vars
     ELSE /\ pushHistory
          /\ wires' = wires \o res.newWires
          /\ components' = Append(components, res.junction)
          /\ nextId' = nextId + 5
          /\ UNCHANGED <<pending, region, simMode, handler>>

\* Scissors click at world point p: hit test, cutWireAt, and the cut applied.
scissorsClick(p) ==
  LET k == ScissorsTarget(p)
      res == cutWireAt(components, wires[k], p, nextId)
  IN IF k = 0 \/ ~res.ok
     THEN UNCHANGED vars
     ELSE /\ pushHistory
          /\ LET wi == FilterIdx(Len(wires),
                                 {j \in 1..Len(wires) : wires[j].id # res.removedWireId})
             IN wires' = [j \in 1..Len(wi) |-> wires[wi[j]]] \o res.newWires
          /\ components' = Append(components, res.junction)
          /\ nextId' = nextId + 5
          /\ UNCHANGED <<pending, region, simMode, handler>>

\* ------------------------------------------------- dragging a junction handle
SNAP_PX == 14
SPLICE_TOLERANCE == 12

\* The handles drawn for a junction: (c.showHandles || !c.hidden), minus the hidden ones.
DraggableHandles(comps) ==
  UNION {{t.id : t \in {u \in SeqToSet(comps[k].terminals) : u.id \notin comps[k].hiddenHandleIds}} :
           k \in {j \in 1..Len(comps) :
                    /\ comps[j].type = "JUNCTION"
                    /\ comps[j].showHandles \/ ~comps[j].hidden}}

\* nearestTerminal(): the nearest terminal other than the dragged one within SNAP_PX of
\* the drop point (the first in iteration order among equals), or none.
nearestTerminal(comps, termId, p) ==
  LET all == UNION {{<<k, j>> : j \in 1..Len(comps[k].terminals)} : k \in 1..Len(comps)}
      D(c) == Dist2(componentTerminalAbsPos(comps[c[1]], comps[c[1]].terminals[c[2]]), p)
      near == {c \in all : /\ comps[c[1]].terminals[c[2]].id # termId
                           /\ D(c) <= SNAP_PX * SNAP_PX}
      Before(c, d) == c[1] < d[1] \/ (c[1] = d[1] /\ c[2] < d[2])
      best == CHOOSE c \in near :
                \A d \in near \ {c} : D(c) < D(d) \/ (D(c) = D(d) /\ Before(c, d))
  IN IF near = {} THEN NoTerm ELSE comps[best[1]].terminals[best[2]].id

\* nearestWireHit(): the wire under the drop point, unless it already uses the handle.
nearestWireHit(ws, comps, termId, p) ==
  LET k == hitTestWireAtPoint(ws, comps, p, SPLICE_TOLERANCE)
  IN IF k = 0 THEN 0
     ELSE IF \E j \in 1..Len(ws) : (ws[j].a = termId \/ ws[j].b = termId) /\ ws[j].id = ws[k].id
     THEN 0
     ELSE k

\* ws.map(w => w.a === termId ? {...w, a: target} : (w.b === termId ? {...w, b: target} : w))
RewireTerminal(ws, termId, target) ==
  [j \in 1..Len(ws) |->
     IF ws[j].a = termId THEN [ws[j] EXCEPT !.a = target]
     ELSE IF ws[j].b = termId THEN [ws[j] EXCEPT !.b = target]
     ELSE ws[j]]

\* { ...c, internalLinks: [], hiddenHandleIds: [...hiddenHandleIds, termId] } on compId
BreakJunctionLink(comps, compId, termId) ==
  [j \in 1..Len(comps) |->
     IF comps[j].id # compId THEN comps[j]
     ELSE [comps[j] EXCEPT !.il = "arr", !.links = <<>>,
                           !.hiddenHandleIds = @ \cup {termId}]]

\* The move handler: the dragged terminal lands under the cursor.
MoveTerminal(comps, compId, termId, p) ==
  [j \in 1..Len(comps) |->
     IF comps[j].id # compId THEN comps[j]
     ELSE [comps[j] EXCEPT !.terminals =
             [i \in 1..Len(comps[j].terminals) |->
                IF comps[j].terminals[i].id = termId
                THEN [comps[j].terminals[i] EXCEPT !.dx = p.x - comps[j].x, !.dy = p.y - comps[j].y]
                ELSE comps[j].terminals[i]]]]

\* setWires of the splice: the target wire replaced by its two halves, then the dragged
\* end rewired to the first terminal of the new junction.
SpliceWires(ws, res, termId) ==
  LET wi == FilterIdx(Len(ws), {j \in 1..Len(ws) : ws[j].id # res.removedWireId})
  IN RewireTerminal([j \in 1..Len(wi) |-> ws[wi[j]]] \o res.newWires,
                    termId, res.junction.terminals[1].id)

\* { ...res.junction, hidden: true, showHandles: false }
SplicedJunction(res) == [res.junction EXCEPT !.hidden = TRUE, !.showHandles = FALSE]

\* What the drop at p is aimed at, decided on the components and wires of the render
\* in which the drag began (the handlers close over them).
DropTarget(compId, termId, p) ==
  LET tHit == nearestTerminal(components, termId, p)
      wHit == IF tHit # NoTerm THEN 0 ELSE nearestWireHit(wires, components, termId, p)
  IN [tHit |-> tHit, wHit |-> wHit]

DropHitPoint(k, p) ==
  projectPointOnSegment(p, TermPos(components, wires[k].a), TermPos(components, wires[k].b))

\* onMouseDownTerminal(compId, termId): the handle is dragged to p and dropped there.
\* batched: the state updates of the drop are rendered together (otherwise one by one).
onMouseDownTerminal(compId, termId, p, batched) ==
  IF ~\E k \in 1..Len(components) :
        components[k].id = compId /\ \E t \in SeqToSet(components[k].terminals) : t.id = termId
  THEN UNCHANGED vars
  ELSE
    \E h \in {terminalById(components, termId)},
       dragged \in {MoveTerminal(components, compId, termId, p)},
       tgt \in {DropTarget(compId, termId, p)} :
      IF tgt.tHit # NoTerm
      THEN /\ pushHistory
           /\ wires' = RewireTerminal(wires, termId, tgt.tHit)
           /\ components' = BreakJunctionLink(dragged, compId, termId)
           /\ UNCHANGED <<pending, nextId, region, simMode, handler>>
      ELSE IF tgt.wHit = 0
      THEN /\ IF Abs((p.x - h.comp.x) - h.term.dx) + Abs((p.y - h.comp.y) - h.term.dy) > 0
              THEN pushHistory
              ELSE UNCHANGED <<undoStack, redoStack>>
           /\ components' = dragged
           /\ UNCHANGED <<wires, pending, nextId, region, simMode, handler>>
      ELSE
        \E res \in {cutWireAt(components, wires[tgt.wHit], DropHitPoint(tgt.wHit, p), nextId)} :
          IF ~res.ok
          THEN /\ IF batched THEN UNCHANGED <<undoStack, redoStack>> ELSE pushHistory
               /\ components' = dragged
               /\ handler' = Crashed
               /\ UNCHANGED <<wires, pending, nextId, region, simMode>>
          ELSE IF batched
          THEN /\ pushHistory
               /\ components' = BreakJunctionLink(Append(dragged, SplicedJunction(res)),
                                                  compId, termId)
               /\ wires' = SpliceWires(wires, res, termId)
               /\ nextId' = nextId + 5
               /\ UNCHANGED <<pending, region, simMode, handler>>
          ELSE /\ pushHistory
               /\ components' = Append(dragged, SplicedJunction(res))
               /\ nextId' = nextId + 5
               /\ handler' = [kind |-> "splice", stage |-> 1, res |-> res,
                              compId |-> compId, termId |-> termId]
               /\ UNCHANGED <<wires, pending, region, simMode>>

\* The rest of a splice rendered update by update: the wires, then the broken link.
spliceContinue ==
  /\ handler.kind = "splice"
  /\ IF handler.stage = 1
     THEN /\ wires' = SpliceWires(wires, handler.res, handler.termId)
          /\ handler' = [handler EXCEPT !.stage = 2]
          /\ UNCHANGED components
     ELSE /\ components' = BreakJunctionLink(components, handler.compId, handler.termId)
          /\ handler' = Idle
          /\ UNCHANGED wires
  /\ UNCHANGED <<pending, undoStack, redoStack, nextId, region, simMode>>

loadPreset(key) ==
  /\ components' = Presets(key, nextId).components
  /\ wires' = Presets(key, nextId).wires
  /\ nextId' = nextId + Presets(key, nextId).ids
  /\ pending' = NoTerm
  /\ UNCHANGED <<undoStack, redoStack, region, simMode, handler>>

setRegion(r) ==
  /\ region' = r
  /\ UNCHANGED <<components, wires, pending, undoStack, redoStack, nextId, simMode, handler>>

\* ------------------------------------------------------------ the App store
\* useState initialisers of App
Init ==
  /\ components = << makeSupply(40, 40, 1), makeLamp(360, 40, 5) >>
  /\ wires = <<>>
  /\ pending = NoTerm
  /\ undoStack = <<>>
  /\ redoStack = <<>>
  /\ nextId = 9
  /\ region = "UK"
  /\ simMode = "free"
  /\ handler = Idle

MaxComps == 3
MaxWires == 1
MaxHist == 2
MaxId == 10

ToolboxKinds == {"switch_1g_1w", "consumer_unit", "no_such_kind"}
WireKinds == {"L"}
ClickNames == {"L", "N", "COM", "L1"}
WireSizes == {25}
Faults == {"none", "open", "hr"}
Regions == {"UK", "EU"}
ClickPoints == {Pt(55, 57), Pt(210, 57), Pt(210, 80)}

Min2(a, b) == IF a <= b THEN a ELSE b

CompIds(comps) == {comps[k].id : k \in 1..Len(comps)}
WireIds(ws) == {ws[k].id : k \in 1..Len(ws)}

Singletons(S) == {{x} : x \in S}

ClickTargets(comps) == {t.id : t \in {u \in AllTerminals(comps) : u.name \in ClickNames}}

AddStep ==
  \E kind \in ToolboxKinds :
    /\ Len(components) < MaxComps /\ nextId <= MaxId
    /\ addToolboxItem(kind)

ClickStep ==
  \E tid \in ClickTargets(components), kind \in WireKinds, size \in WireSizes :
    /\ Len(wires) < MaxWires /\ Len(undoStack) < MaxHist /\ nextId <= MaxId
    /\ onTerminalClick(tid, kind, size, "T&E")

FaultStep ==
  \E k \in 1..Min2(Len(wires), MaxWires), f \in Faults :
    /\ Len(undoStack) < MaxHist
    /\ setFault(k, f)

ToggleStep == \E k \in 1..Len(components) : toggleSwitch(k)

RemoveStep ==
  \E sel \in Singletons(CompIds(components)) \cup {{}} :
    \E selW \in Singletons(WireIds(wires)) \cup {{}} :
      /\ Len(undoStack) < MaxHist
      /\ removeSelected(sel, selW)

CutStep ==
  \E p \in ClickPoints :
    /\ Len(components) < MaxComps /\ Len(wires) <= MaxWires
    /\ Len(undoStack) < MaxHist /\ nextId <= MaxId
    /\ ScissorsTarget(p) # 0 =>
         ProjectionIsIntegral(p, TermPos(components, wires[ScissorsTarget(p)].a),
                              TermPos(components, wires[ScissorsTarget(p)].b))
    /\ scissorsClick(p)

PresetStep == \E key \in PresetKeys : nextId <= MaxId /\ loadPreset(key)

Next ==
  \/ AddStep
  \/ ClickStep
  \/ FaultStep
  \/ ToggleStep
  \/ RemoveStep
  \/ CutStep
  \/ PresetStep
  \/ undo
  \/ redo

Spec == Init /\ [][Next]_vars

\* ------------------------------------------------- editing without presets
\* Adding components, drawing wires, toggling switches and deleting.
EditMaxComps == 3
EditMaxWires == 2
EditMaxHist == 2
EditMaxId == 14

EditAdd ==
  \E kind \in ToolboxKinds :
    /\ Len(components) < EditMaxComps /\ nextId <= EditMaxId
    /\ addToolboxItem(kind)

EditClick ==
  \E tid \in ClickTargets(components), kind \in WireKinds, size \in WireSizes :
    /\ Len(wires) < EditMaxWires /\ Len(undoStack) < EditMaxHist /\ nextId <= EditMaxId
    /\ onTerminalClick(tid, kind, size, "T&E")

EditToggle == \E k \in 1..Len(components) : toggleSwitch(k)

EditRemove ==
  \E sel \in Singletons(CompIds(components)) \cup {{}} :
    \E selW \in Singletons(WireIds(wires)) \cup {{}} :
      /\ Len(undoStack) < EditMaxHist
      /\ removeSelected(sel, selW)

\* The exported text is loaded again.
EditImport == importState(exportState)

NextEdit ==
  \/ EditAdd
  \/ EditClick
  \/ EditToggle
  \/ EditRemove
  \/ EditImport

SpecEdit == Init /\ [][NextEdit]_vars

\* Reachability stated on the circuit itself: the conductors are the wires and the
\* internal links that are closed; a terminal reaches whatever a chain of them joins.
Conductors(comps, ws) ==
  {{ws[k].a, ws[k].b} : k \in 1..Len(ws)}
  \cup UNION {{{TermNamed(comps[k], l[1]).id, TermNamed(comps[k], l[2]).id} :
                 l \in {m \in SeqToSet(InternalLinks(comps[k])) :
                          HasTermNamed(comps[k], m[1]) /\ HasTermNamed(comps[k], m[2])}} :
              k \in 1..Len(comps)}

RECURSIVE Joined(_, _)
Joined(E, S) ==
  LET S2 == S \cup UNION {e \in E : e \cap S # {}}
  IN IF S2 = S THEN S ELSE Joined(E, S2)

Connected(comps, ws, a, b) == b \in Joined(Conductors(comps, ws), {a})

HasSupply == HasType(components, {"SUPPLY"})
TheSupply == FindType(components, {"SUPPLY"})

\* C1: whenever the circuit has a Supply and the supply's Neutral terminal is joined to
\* its Line terminal by wires and closed internal links, the analysis lists "L-N" among
\* the shorts.
C1_ShortDetected ==
  (HasSupply /\ Connected(components, wires, termIdByName(TheSupply, "L"),
                          termIdByName(TheSupply, "N")))
    => "L-N" \in SeqToSet(Analysis(components, wires, region).shorts)

\* A short that runs through a second component: Line and Neutral joined, but by no single wire.
C1_Witness ==
  /\ HasSupply
  /\ Connected(components, wires, termIdByName(TheSupply, "L"), termIdByName(TheSupply, "N"))
  /\ ~\E k \in 1..Len(wires) :
        {wires[k].a, wires[k].b} = {termIdByName(TheSupply, "L"), termIdByName(TheSupply, "N")}
  /\ "L-N" \in SeqToSet(Analysis(components, wires, region).shorts)

\* ------------------------------------------------ reachability in each graph
AdjReach(comps, ws, a, b) == b \in bfs(buildAdjacency(comps, ws), a)

TypedReach(comps, ws, F, a, b) ==
  b \in bfsSet(buildTypedSubgraph(comps, ws, FamilySet(F)), a)

WeightedReach(comps, ws, F, a, b) ==
  b \in bfsSet(Targets(buildWeightedSubgraph(comps, ws, FamilySet(F), F)), a)

\* The wires other than the k-th.
Without(ws, k) == [j \in 1..(Len(ws) - 1) |-> IF j < k THEN ws[j] ELSE ws[j + 1]]

\* C2: the two ends of a wire marked fault = "open" reach each other, in the unfiltered
\* adjacency, in each family's unweighted graph and in each family's weighted graph,
\* only if they also do so without that wire.
C2_OpenFaultBreaks ==
  \A k \in 1..Len(wires) :
    wires[k].fault = "open" =>
      LET a == wires[k].a
          b == wires[k].b
          rest == Without(wires, k)
      IN /\ AdjReach(components, wires, a, b) => AdjReach(components, rest, a, b)
         /\ \A F \in Families :
              /\ TypedReach(components, wires, F, a, b) => TypedReach(components, rest, F, a, b)
              /\ WeightedReach(components, wires, F, a, b)
                   => WeightedReach(components, rest, F, a, b)

\* The wires whose two ends are terminals of existing components, in order.
Attached(comps, ws) ==
  LET idx == FilterIdx(Len(ws), {k \in 1..Len(ws) :
                                   HasTerminal(comps, ws[k].a) /\ HasTerminal(comps, ws[k].b)})
  IN [j \in 1..Len(idx) |-> ws[idx[j]]]

\* C3: a wire with an end that is no terminal of any component adds nothing to any
\* derived graph: each builder gives the graph it gives for the attached wires alone.
C3_DanglingIgnored ==
  LET sound == Attached(components, wires)
  IN /\ buildAdjacency(components, wires) = buildAdjacency(components, sound)
     /\ \A F \in Families :
          /\ buildTypedSubgraph(components, wires, FamilySet(F))
               = buildTypedSubgraph(components, sound, FamilySet(F))
          /\ buildWeightedSubgraph(components, wires, FamilySet(F), F)
               = buildWeightedSubgraph(components, sound, FamilySet(F), F)

\* C4: both ends of every wire are ids of terminals of components that exist.
C4_WiresAttached ==
  \A k \in 1..Len(wires) :
    HasTerminal(components, wires[k].a) /\ HasTerminal(components, wires[k].b)

\* C7: with a consumer unit and no Supply, the analysis is the one computed from the
\* first consumer unit's L / N / E terminals (the reference measureVoltage uses).
C7_ReferenceFallback ==
  (~HasSupply /\ HasReference(components))
    => Analysis(components, wires, region)
         = AnalysisFrom(components, wires, region, measureVoltageReference(components))

\* The projection of p on segment a-b lies less than tol from a or from b.
ProjectionNearEnd(p, a, b, tol) ==
  LET ab2 == Dist2(a, b)
      dot == Dot(p, a, b)
      lim == ISqrt(tol * tol * ab2 - 1)
  IN IF ab2 = 0 \/ dot <= 0 \/ dot >= ab2 THEN TRUE
     ELSE dot <= lim \/ ab2 - dot <= lim

\* C9: for every point that hit-tests onto a wire and whose projection on the wire lies
\* within the snap tolerance of one of its ends, cutWireAt returns null.
C9_NoCutNearEnds ==
  \A p \in ClickPoints :
    LET k == ScissorsTarget(p) IN
    (k # 0 /\ ProjectionNearEnd(p, TermPos(components, wires[k].a),
                                TermPos(components, wires[k].b), SNAP_TOLERANCE))
      => ~cutWireAt(components, wires[k], p, nextId).ok

\* A scissors click at p that cut a wire.
CutAt(p) == scissorsClick(p) /\ components' # components

\* C10: when a wire with an explicit lengthM is cut, neither replacement wire carries
\* that lengthM.
C10_LengthNotInherited ==
  [][\A p \in ClickPoints :
       (CutAt(p) /\ wires[ScissorsTarget(p)].lengthM > 0)
         => \A j \in (Len(wires') - 1)..Len(wires') :
              wires'[j].lengthM # wires[ScissorsTarget(p)].lengthM]_vars

\* ------------------------------------------------------- drawing a circuit
\* A Supply and two double sockets on the canvas; line conductors drawn between the
\* supply's L, the first socket's LIN and LOUT and the second socket's LIN, in any
\* order and in either direction.
RingMaxWires == 3

InitRing ==
  /\ components = GOOD_RING(1).components
  /\ wires = <<>>
  /\ pending = NoTerm
  /\ undoStack = <<>>
  /\ redoStack = <<>>
  /\ nextId = 19
  /\ region = "UK"
  /\ simMode = "free"
  /\ handler = Idle

RingTargets ==
  {termIdByName(components[1], "L"), termIdByName(components[2], "LIN"),
   termIdByName(components[2], "LOUT"), termIdByName(components[3], "LIN")}

RingClick ==
  \E tid \in RingTargets :
    /\ Len(wires) < RingMaxWires
    /\ onTerminalClick(tid, "L", 25, "T&E")

NextRing == RingClick

SpecRing == InitRing /\ [][NextRing]_vars

\* A wire with its ends in ascending order.
Orient(w) == IF w.a <= w.b THEN w ELSE [w EXCEPT !.a = w.b, !.b = w.a]

RECURSIVE SortWires(_)
SortWires(S) ==
  IF S = {} THEN <<>>
  ELSE LET m == CHOOSE x \in S : \A y \in S : x.a < y.a \/ (x.a = y.a /\ x.b <= y.b)
       IN <<m>> \o SortWires(S \ {m})

\* The same wires in an order and direction that depend on nothing but their ends.
Canonical(ws) == SortWires({[Orient(ws[k]) EXCEPT !.id = 0] : k \in 1..Len(ws)})

RingStatus(comps, ws, reg) == Analysis(comps, ws, reg).ring

\* C5: the ring status (L, N, E) is the one reported for the same wires stored in
\* canonical order and direction, so it is the same for every order and direction.
C5_RingOrderIndependent ==
  RingStatus(components, wires, region) = RingStatus(components, Canonical(wires), region)

\* A line ring whose wires are stored neither in canonical order nor all in canonical direction.
C5_Witness ==
  /\ Len(wires) = 3
  /\ RingStatus(components, wires, region).L
  /\ \E k \in 1..Len(wires) : wires[k].a > wires[k].b
  /\ \E k \in 1..(Len(wires) - 1) : Orient(wires[k]).a > Orient(wires[k + 1]).a

\* ---------------------------------------------------- wiring a ring final
\* The connections of a ring final in 2.5 mm^2 twin-and-earth: Supply to the first
\* socket's IN side, its OUT side to the second socket's IN side, and the second
\* socket's OUT side back to the Supply, for L, N and E (the CPC of 2.5 T&E is 1.5).
RingLeg(sup, s1, s2, n, tin, tout, size) ==
  << [a |-> termIdByName(sup, n), b |-> termIdByName(s1, tin), kind |-> n, size |-> size],
     [a |-> termIdByName(s1, tout), b |-> termIdByName(s2, tin), kind |-> n, size |-> size],
     [a |-> termIdByName(s2, tout), b |-> termIdByName(sup, n), kind |-> n, size |-> size] >>

RingPlan(comps) ==
  RingLeg(comps[1], comps[2], comps[3], "L", "LIN", "LOUT", 25)
  \o RingLeg(comps[1], comps[2], comps[3], "N", "NIN", "NOUT", 25)
  \o RingLeg(comps[1], comps[2], comps[3], "E", "EIN", "EOUT", cpcSizeForBundle(25))

\* The next connection of the plan is drawn, from either end.
PlanClick ==
  /\ Len(wires) < Len(RingPlan(components))
  /\ LET c == RingPlan(components)[Len(wires) + 1]
     IN \E tid \in {c.a, c.b} : onTerminalClick(tid, c.kind, c.size, "T&E")

RegionStep == \E r \in Regions : setRegion(r)

NextFinal ==
  \/ PlanClick
  \/ RegionStep

SpecFinal == InitRing /\ [][NextFinal]_vars

\* Exactly the planned connections are drawn, each from either end.
RingFinalWired ==
  /\ Len(components) = 3
  /\ components[1].type = "SUPPLY"
  /\ components[2].type \in SocketTypes /\ components[3].type \in SocketTypes
  /\ Len(wires) = Len(RingPlan(components))
  /\ \A k \in 1..Len(wires) :
       LET c == RingPlan(components)[k]
       IN /\ {wires[k].a, wires[k].b} = {c.a, c.b}
          /\ wires[k].kind = c.kind /\ wires[k].sizeMm2 = c.size
          /\ wires[k].fault = "none"

\* C6: for a Supply and two sockets wired as a ring final in 2.5 mm^2 twin-and-earth,
\* in either region, the analysis reports a ring on L, N and E, no undersized wire,
\* and both sockets in the ring.
C6_GoodRingFinal ==
  RingFinalWired =>
    LET r == Analysis(components, wires, region)
    IN /\ r.ring = [L |-> TRUE, N |-> TRUE, E |-> TRUE]
       /\ r.validator.undersized = <<>>
       /\ r.validator.ringSockets = <<components[2].id, components[3].id>>

\* ----------------------------------------------------------- cutting wires
\* Wires of either colour drawn between the L and N terminals of the Supply and the
\* lamp, faults set on them, and one of them cut with the scissors.
CutMaxWires == 2
CutMaxComps == 3
CutMaxHist == 3

CutWireKinds == {"L", "N"}
CutTargetNames == {"L", "N"}

CutDraw ==
  \E tid \in {t.id : t \in {u \in AllTerminals(components) : u.name \in CutTargetNames}},
     kind \in CutWireKinds :
    /\ Len(wires) < CutMaxWires /\ Len(undoStack) < CutMaxHist
    /\ onTerminalClick(tid, kind, 25, "T&E")

CutFault ==
  \E k \in 1..Len(wires), f \in Faults :
    /\ Len(undoStack) < CutMaxHist /\ Len(components) < CutMaxComps
    /\ wires[k].fault # f
    /\ setFault(k, f)

CutScissors ==
  \E p \in ClickPoints :
    /\ Len(components) < CutMaxComps
    /\ ScissorsTarget(p) # 0 =>
         ProjectionIsIntegral(p, TermPos(components, wires[ScissorsTarget(p)].a),
                              TermPos(components, wires[ScissorsTarget(p)].b))
    /\ scissorsClick(p)

NextCut ==
  \/ CutDraw
  \/ CutFault
  \/ CutScissors

SpecCut == Init /\ [][NextCut]_vars

FamilyOf(t) == IF t \in LineTermTypes THEN "L" ELSE IF t \in NeutralTermTypes THEN "N" ELSE "E"

\* Every pair of distinct terminals that existed before the step reaches each other
\* after it exactly when it did before, in the unfiltered graph and in each family's
\* unweighted and weighted graph.
PairsPreserved ==
  LET old == TerminalIds(components)
      adj0 == buildAdjacency(components, wires)
      adj1 == buildAdjacency(components', wires')
  IN /\ \A a \in old : bfs(adj0, a) \cap (old \ {a}) = bfs(adj1, a) \cap (old \ {a})
     /\ \A F \in Families :
          LET t0 == buildTypedSubgraph(components, wires, FamilySet(F))
              t1 == buildTypedSubgraph(components', wires', FamilySet(F))
              w0 == Targets(buildWeightedSubgraph(components, wires, FamilySet(F), F))
              w1 == Targets(buildWeightedSubgraph(components', wires', FamilySet(F), F))
          IN \A a \in old :
               /\ bfsSet(t0, a) \cap (old \ {a}) = bfsSet(t1, a) \cap (old \ {a})
               /\ bfsSet(w0, a) \cap (old \ {a}) = bfsSet(w1, a) \cap (old \ {a})

\* The junction added by the step, and whether its two terminals reach each other in
\* the unweighted and weighted graphs of family F.
NewJunction == components'[Len(components')]

JunctionJoinedIn(F) ==
  LET t1 == NewJunction.terminals[1].id
      t2 == NewJunction.terminals[2].id
  IN /\ TypedReach(components', wires', F, t1, t2) /\ TypedReach(components', wires', F, t2, t1)
     /\ WeightedReach(components', wires', F, t1, t2)
     /\ WeightedReach(components', wires', F, t2, t1)

JunctionJoinedUnfiltered ==
  /\ AdjReach(components', wires', NewJunction.terminals[1].id, NewJunction.terminals[2].id)
  /\ AdjReach(components', wires', NewJunction.terminals[2].id, NewJunction.terminals[1].id)

DragMaxDrawn == 2
DragMaxComps == 4
DragMaxHist == 4

DragTargetNames == {"L", "E"}
DropPoints == {Pt(60, 40), Pt(210, 80), Pt(55, 57)}

\* The drop's projection on the hit wire has whole-pixel coordinates, or it lies within
\* the snap tolerance of an end both exactly and after rounding to whole pixels.
DropIsExact(termId, p) ==
  \A k \in {DropTarget(0, termId, p).wHit} :
    IF k = 0 THEN TRUE
    ELSE \A pa \in {TermPos(components, wires[k].a)}, pb \in {TermPos(components, wires[k].b)} :
           \/ ProjectionIsIntegral(p, pa, pb)
           \/ /\ ProjectionNearEnd(p, pa, pb, SNAP_TOLERANCE)
              /\ ~cutWireAt(components, wires[k], DropHitPoint(k, p), nextId).ok

DragDraw ==
  \E tid \in {t.id : t \in {u \in AllTerminals(components) : u.name \in DragTargetNames}} :
    /\ handler = Idle
    /\ Len(wires) < DragMaxDrawn /\ Len(components) = 2
    /\ onTerminalClick(tid, "L", 25, "T&E")

DragScissors ==
  \E p \in ClickPoints :
    /\ handler = Idle
    /\ Len(components) < DragMaxComps /\ Len(undoStack) < DragMaxHist
    /\ ScissorsTarget(p) # 0
    /\ ProjectionIsIntegral(p, TermPos(components, wires[ScissorsTarget(p)].a),
                            TermPos(components, wires[ScissorsTarget(p)].b))
    /\ scissorsClick(p)

DragDrop ==
  \E termId \in DraggableHandles(components), p \in DropPoints, batched \in BOOLEAN :
    /\ handler = Idle
    /\ Len(components) < DragMaxComps /\ Len(undoStack) < DragMaxHist
    /\ DropIsExact(termId, p)
    /\ onMouseDownTerminal(terminalById(components, termId).comp.id, termId, p, batched)

NextDrag ==
  \/ DragDraw
  \/ DragScissors
  \/ DragDrop
  \/ spliceContinue

SpecDrag == Init /\ [][NextDrag]_vars

Junctions(comps) == {comps[k] : k \in {j \in 1..Len(comps) : comps[j].type = "JUNCTION"}}

\* cutWireAt draws the ids of the junction, its two terminals and the two replacement
\* wires in a row: the replacement wires of junction j are the wires j.id + 3 and j.id + 4.
IsCutOf(o, j, w1, w2) ==
  /\ w1 = [o EXCEPT !.id = j.id + 3, !.b = j.terminals[1].id]
  /\ w2 = [o EXCEPT !.id = j.id + 4, !.a = j.terminals[2].id]

\* C11: a cut is applied as one step. No state has a replacement wire whose junction is
\* missing (every wire end is a terminal of a component on the canvas), and in every
\* step in which a wire disappears or a replacement wire appears, exactly one wire
\* disappears and both of its replacement wires appear, their junction being present.
C11_CutAppliedAtomically ==
  [][LET newW == {w \in SeqToSet(wires') : w.id \notin WireIds(wires)}
         goneW == {w \in SeqToSet(wires) : w.id \notin WireIds(wires')}
         J == Junctions(components')
     IN /\ \A k \in 1..Len(wires') :
             HasTerminal(components', wires'[k].a) /\ HasTerminal(components', wires'[k].b)
        /\ (goneW # {} \/ \E w \in newW : \E j \in J : w.id \in {j.id + 3, j.id + 4})
             => \E o \in goneW, j \in J, w1 \in newW, w2 \in newW :
                  goneW = {o} /\ IsCutOf(o, j, w1, w2)]_vars

\* One wire has been cut with the scissors and a handle of its junction spliced into
\* another wire: two junctions, each with both of its replacement wires.
C11_Witness ==
  /\ handler = Idle
  /\ \E j \in Junctions(components) : ~j.showHandles
  /\ \E j \in Junctions(components) : j.showHandles
  /\ \A j \in Junctions(components) : {j.id + 3, j.id + 4} \subseteq WireIds(wires)


\* C12: exporting a state and importing the result gives a state with the same
\* unfiltered graph, the same family graphs and the same analysis outputs.
C12_SaveLoadLossless ==
  LET st == exportState
  IN /\ buildAdjacency(st.components, st.wires) = buildAdjacency(components, wires)
     /\ \A k \in Families :
          /\ buildTypedSubgraph(st.components, st.wires, FamilySet(k))
               = buildTypedSubgraph(components, wires, FamilySet(k))
          /\ buildWeightedSubgraph(st.components, st.wires, FamilySet(k), k)
               = buildWeightedSubgraph(components, wires, FamilySet(k), k)
     /\ Analysis(st.components, st.wires, region) = Analysis(components, wires, region)


\* The conductors that carry current: the wires that are not open-circuit and whose two
\* ends are terminals on the canvas, and the closed internal links.
SoundConductors(comps, ws) ==
  Conductors(comps, SelectSeq(ws, LAMBDA w : /\ w.fault # "open"
                                            /\ HasTerminal(comps, w.a)
                                            /\ HasTerminal(comps, w.b)))

Reaches(a, b) == a # UNDEF /\ b # UNDEF /\ b \in Joined(SoundConductors(components, wires), {a})

\* C13: with a Supply on the canvas, each lamp is reported on iff its L terminal is
\* reachable from the supply's L, its N terminal from the supply's N, and no short is
\* reported; its earth is reported ok iff its E terminal is reachable from the supply's E.
C13_LampStatus ==
  HasSupply =>
    LET r == Analysis(components, wires, region)
        Lamp(id) == components[FirstIndex({k \in 1..Len(components) : components[k].id = id})]
    IN /\ \A i \in 1..Len(r.lamps) :
            r.lamps[i].on <=>
              /\ Reaches(termIdByName(TheSupply, "L"), termIdByName(Lamp(r.lamps[i].id), "L"))
              /\ Reaches(termIdByName(TheSupply, "N"), termIdByName(Lamp(r.lamps[i].id), "N"))
              /\ r.shorts = <<>>
       /\ \A i \in 1..Len(r.lamps) :
            r.earth[i].ok <=>
              Reaches(termIdByName(TheSupply, "E"), termIdByName(Lamp(r.earth[i].id), "E"))


\* The conductors of a family: the wires that are not open-circuit and whose two ends
\* are terminals of the family, and the closed internal links between such terminals.
FamilyConductors(comps, ws, types) ==
  {e \in SoundConductors(comps, ws) : \A t \in e : TermTypeById(comps, t) \in types}

\* The family's reachable set of a terminal; empty for a terminal (or for no terminal)
\* that no conductor of the family touches, which is then no node of the family's graph.
FamilyReach(comps, ws, types, s) ==
  IF \E e \in FamilyConductors(comps, ws, types) : s \in e
  THEN Joined(FamilyConductors(comps, ws, types), {s})
  ELSE {}

Potential(t) ==
  LET ref == measureVoltageReference(components)
      R(types, n) == FamilyReach(components, wires, types, ReferenceTerminal(components, ref, n))
  IN IF t \in R(LineTermTypes, "L") THEN SYSTEM_V
     ELSE IF t \in R(NeutralTermTypes, "N") \/ t \in R(EarthTermTypes, "E") THEN 0
     ELSE NullV

\* C14: measureVoltage returns null iff there is neither a Supply nor a consumer unit;
\* otherwise each probe reads 230 in the reference's Line-reachable set, 0 in its
\* Neutral- or Earth-reachable set and null elsewhere, and Vab is |Va - Vb|, or null
\* when either potential is null.
C14_Voltage ==
  \A a \in TerminalIds(components) \cup {UNDEF}, b \in TerminalIds(components) \cup {UNDEF} :
    LET v == measureVoltage(components, wires, a, b)
    IN /\ v.null <=> ~HasReference(components)
       /\ ~v.null =>
            /\ v.Va = Potential(a) /\ v.Vb = Potential(b)
            /\ v.Vab = (IF v.Va = NullV \/ v.Vb = NullV THEN NullV ELSE Abs(v.Va - v.Vb))

\* ---------------------------------------------------------- the meter
\* The Supply and the two double sockets; line conductors are drawn
\* between the four line terminals and joints are marked high-resistance or open.
MeterMaxWires == 3
MeterMaxHist == 4

MeterSizes == {25}
MeterFaults == {"hr", "open"}

MeterClick ==
  \E tid \in RingTargets, size \in MeterSizes :
    /\ Len(wires) < MeterMaxWires
    /\ onTerminalClick(tid, "L", size, "T&E")

MeterFault ==
  \E k \in 1..Len(wires), f \in MeterFaults :
    /\ Len(undoStack) < MeterMaxHist
    /\ wires[k].fault = "none"
    /\ setFault(k, f)

NextMeter ==
  \/ MeterClick
  \/ MeterFault

SpecMeter == InitRing /\ [][NextMeter]_vars

\* The terminals the probes are put on: the four line terminals, the supply's
\* neutral (a node of no line graph) and no terminal at all.
Probes == RingTargets \cup {termIdByName(components[1], "N"), UNDEF}

\* The least weight of an edge from m to n, the edges of g between them being parallel.
EdgeWeights(g, m, n) == {g[m][i].w : i \in {j \in 1..Len(g[m]) : g[m][j].to = n}}

MinOf(S) == CHOOSE x \in S : \A y \in S : x <= y

RECURSIVE LeastSums(_, _, _)
\* The least sum of edge weights over the walks of at most k edges from the nodes of d.
LeastSums(g, d, k) ==
  IF k = 0 THEN d
  ELSE LET via(n) == UNION {{d[m] + w : w \in EdgeWeights(g, m, n)} :
                              m \in DOMAIN d \cap DOMAIN g}
           reach == DOMAIN d \cup {n \in DOMAIN g : via(n) # {}}
       IN LeastSums(g, [n \in reach |-> MinOf((IF n \in DOMAIN d THEN {d[n]} ELSE {}) \cup via(n))],
                    k - 1)

\* The minimum over all paths from start of the sum of edge resistances.
MinResistance(g, start) == LeastSums(g, (start :> 0), Cardinality(DOMAIN g))

RECURSIVE PathSum(_, _)
\* The sum of the least edge resistances along a path, -1 when a hop is no edge.
PathSum(g, path) ==
  IF Len(path) <= 1 THEN 0
  ELSE LET ws == IF path[1] \in DOMAIN g THEN EdgeWeights(g, path[1], path[2]) ELSE {}
           rest == PathSum(g, Tail(path))
       IN IF ws = {} \/ rest < 0 THEN -1 ELSE MinOf(ws) + rest

ShortestOK(g, least, a, b) ==
  LET r == dijkstraWeighted(g, a, b)
  IN IF a \notin DOMAIN g \/ b \notin DOMAIN g \/ b \notin DOMAIN least
     THEN r.inf /\ r.path = <<>>
     ELSE /\ ~r.inf
          /\ r.R = least[b]
          /\ r.R >= 0
          /\ Len(r.path) >= 1
          /\ r.path[1] = a
          /\ r.path[Len(r.path)] = b
          /\ PathSum(g, r.path) = r.R

\* C15: for every family and every pair of probes the meter's search returns the
\* least sum of edge resistances over all paths between them with a path of that
\* sum, infinite with no path when a probe is no node of the graph or nothing joins
\* them, and never a negative resistance.
C15_ShortestResistance ==
  \A k \in Families :
    LET g == buildWeightedSubgraph(components, wires, FamilySet(k), k)
    IN \A a \in Probes :
         LET least == MinResistance(g, a)
         IN \A b \in Probes : ShortestOK(g, least, a, b)

\* A high-resistance wire joins two terminals directly and a longer way round through
\* sound conductors has the lesser resistance.
C15_Witness ==
  \E k \in 1..Len(wires) :
    LET g == LineGraphW(components, wires)
        r == dijkstraWeighted(g, wires[k].a, wires[k].b)
    IN /\ wires[k].fault = "hr"
       /\ ~r.inf
       /\ Len(r.path) >= 3
       /\ r.R < WireResistance(components, wires[k], "L")

\* ------------------------------------------------------- learning mode
\* The Supply and the two double sockets; the mode is switched between free and
\* learning and line conductors are drawn between the sockets' line terminals with
\* no size chosen, 1.0 mm2 or 2.5 mm2.
LearnMaxWires == 2

LearnModes == {"free", "learning"}
LearnSizes == {0, 10, 25}

LearnTargets == RingTargets \ {termIdByName(components[1], "L")}

LearnMode == \E m \in LearnModes : setSimMode(m)

LearnDraw(tid, size) ==
  /\ Len(wires) < LearnMaxWires
  /\ onTerminalClick(tid, "L", size, "T&E")

LearnClick == \E tid \in LearnTargets, size \in LearnSizes : LearnDraw(tid, size)

NextLearn ==
  \/ LearnMode
  \/ LearnClick

SpecLearn == InitRing /\ [][NextLearn]_vars

\* The click on tid completes a new wire from the pending terminal whose chosen size
\* is below the required minimum of its two ends.
CompletesUndersized(tid, size) ==
  /\ size # 0
  /\ pending # NoTerm
  /\ pending # tid
  /\ ~\E k \in 1..Len(wires) : {wires[k].a, wires[k].b} = {pending, tid}
  /\ size < wireRequiredMinCSA(components,
                               Wire(0, pending, tid, "L", size, 0, "none", "T&E", FALSE), region)

\* C16: a click that completes an undersized wire adds no wire in learning mode and
\* adds the wire in free mode.
C16_LearningRejectsUndersized ==
  [][\A tid \in LearnTargets, size \in LearnSizes :
       (LearnDraw(tid, size) /\ CompletesUndersized(tid, size))
         => IF simMode = "learning"
            THEN wires' = wires
            ELSE /\ Len(wires') = Len(wires) + 1
                 /\ {wires'[Len(wires')].a, wires'[Len(wires')].b} = {pending, tid}]_vars

\* ------------------------------------------------------------ wire sizes
\* A Supply, a double socket and a lamp on the canvas. State files are loaded that
\* hold these components and one wire between two of their terminals, of any kind,
\* cable and size or with no size, and the region is switched.
InitSize ==
  /\ components = <<makeSupply(40, 40, 1), makeSocket2G(200, 60, 5), makeLamp(360, 60, 12)>>
  /\ wires = <<>>
  /\ pending = NoTerm
  /\ undoStack = <<>>
  /\ redoStack = <<>>
  /\ nextId = 16
  /\ region = "UK"
  /\ simMode = "free"
  /\ handler = Idle

SizeEnds ==
  {termIdByName(components[1], "E"), termIdByName(components[2], "LIN"),
   termIdByName(components[2], "EIN"), termIdByName(components[3], "L"),
   termIdByName(components[3], "E")}

SizeKinds == {"L", "E"}
SizeCables == {"T&E", "Bonding"}
SizeChoices == {0, 10, 15, 25, 100, 160}

SizeImport ==
  \E a \in SizeEnds, b \in SizeEnds, kind \in SizeKinds, size \in SizeChoices,
     cable \in SizeCables :
    /\ a # b
    /\ importState([components |-> components,
                    wires |-> <<Wire(nextId, a, b, kind, size, 0, "none", cable, FALSE)>>])

SizeRegion == \E r \in Regions : setRegion(r)

NextSize ==
  \/ SizeImport
  \/ SizeRegion

SpecSize == InitSize /\ [][NextSize]_vars

\* The requirement at one end of a wire.
EndRequirement(tid) ==
  LET h == terminalById(components, tid)
  IN requiredCSAForTerminal(h.comp, h.term, region)

\* The regional floor of a bonding conductor: 10 mm2 in the UK.
BondingFloor(w) ==
  IF region = "UK" /\ w.cableType = "Bonding" /\ w.kind = "E" THEN 100 ELSE 0

\* The greater of the requirements at the two ends, and no less than the floor.
RequiredMinimum(w) ==
  CHOOSE r \in {EndRequirement(w.a), EndRequirement(w.b), BondingFloor(w)} :
    /\ r >= EndRequirement(w.a)
    /\ r >= EndRequirement(w.b)
    /\ r >= BondingFloor(w)

\* C17: a wire between two terminals is flagged undersized exactly when it has a
\* declared size and that size is below the greater of the requirements at its two
\* ends (10 mm2 at least for a UK bonding conductor); a wire with no declared size is
\* never flagged.
C17_Undersized ==
  \A k \in 1..Len(wires) :
    (HasTerminal(components, wires[k].a) /\ HasTerminal(components, wires[k].b))
      => /\ isWireUndersized(components, wires[k], region)
              <=> (wires[k].sizeMm2 # 0 /\ wires[k].sizeMm2 < RequiredMinimum(wires[k]))
         /\ wires[k].sizeMm2 = 0 => ~isWireUndersized(components, wires[k], region)

\* A wire is flagged because of the requirement at its second end alone: its size
\* meets the requirement at the first end and the bonding floor.
C17_Witness ==
  \E k \in 1..Len(wires) :
    /\ isWireUndersized(components, wires[k], region)
    /\ wires[k].sizeMm2 >= EndRequirement(wires[k].a)
    /\ wires[k].sizeMm2 >= BondingFloor(wires[k])
    /\ EndRequirement(wires[k].a) > 0

\* ------------------------------------------------------------ the toolbox
\* Toolbox buttons are pressed on the initial canvas, one of them of a kind the switch
\* of addToolboxItem has no case for.
BoxMaxComps == 6

BoxKinds == {"lamp", "switch_1g_1w", "socket_1g", "no_such_kind"}

BoxPress ==
  \E kind \in BoxKinds :
    /\ Len(components) < BoxMaxComps
    /\ toolboxPress(kind)

BoxRun == toolboxRun

NextBox ==
  \/ BoxPress
  \/ BoxRun

SpecBox == Init /\ [][NextBox]_vars

\* C18: the handler of a request for an unknown kind ends with the error
\* "UnknownComponentVariant" thrown and adds no component.
C18_UnknownVariantFails ==
  [][(handler.kind = "toolbox" /\ ToolboxType(handler.item) = "none" /\ toolboxRun)
       => /\ components' = components
          /\ handler' = Thrown("UnknownComponentVariant")]_vars

\* ------------------------------------------------------------- switches
\* 1-way, 2-way and intermediate switches are added from the toolbox to the initial
\* canvas and toggled in any order.
SwitchMaxComps == 5

SwitchKinds == {"switch_1g_1w", "switch_1g_2w", "switch_intermediate"}
SwitchTypes == {"SWITCH_1WAY", "SWITCH_2WAY", "SWITCH_INTERMEDIATE"}

SwitchAdd ==
  \E kind \in SwitchKinds :
    /\ Len(components) < SwitchMaxComps
    /\ addToolboxItem(kind)

SwitchToggle == \E k \in 1..Len(components) : toggleSwitch(k)

NextSwitch ==
  \/ SwitchAdd
  \/ SwitchToggle

SpecSwitch == Init /\ [][NextSwitch]_vars

\* The pairs of terminal names a component links.
LinkSet(c) == {{InternalLinks(c)[i][1], InternalLinks(c)[i][2]} : i \in 1..Len(InternalLinks(c))}

\* The table of links by variant and state.
LinksAsTabled(c) ==
  IF c.type = "SWITCH_1WAY"
  THEN LinkSet(c) = (IF c.state.on THEN {{"COM", "L1"}} ELSE {})
  ELSE IF c.type = "SWITCH_2WAY"
  THEN /\ c.state.pos \in {0, 1}
       /\ LinkSet(c) = (IF c.state.pos = 0 THEN {{"COM", "L1"}} ELSE {{"COM", "L2"}})
  ELSE IF c.type = "SWITCH_INTERMEDIATE"
  THEN /\ c.state.pos \in {0, 1}
       /\ LinkSet(c) = (IF c.state.pos = 0 THEN {{"L1A", "L1B"}, {"L2A", "L2B"}}
                                          ELSE {{"L1A", "L2B"}, {"L2A", "L1B"}})
  ELSE TRUE

\* C19: whatever toggles came before, every switch links what the table gives for
\* its state (1-way: COM-L1 when on, nothing when off; 2-way: COM-L1 at position 0,
\* COM-L2 at position 1; intermediate: straight at 0, crossed at 1), and a toggle
\* followed by a second toggle of the same switch gives back the links it had.
C19_SwitchLinks ==
  /\ [](\A k \in 1..Len(components) : LinksAsTabled(components[k]))
  /\ [][\A k \in 1..Len(components) :
          (toggleSwitch(k) /\ components[k].type \in SwitchTypes)
            => /\ LinkSet(components'[k]) # LinkSet(components[k])
               /\ LinkSet(toggled(components'[k])) = LinkSet(components[k])]_vars

\* A 1-way switch that is on, a 2-way switch at position 1 and an intermediate switch
\* at position 1 are on the canvas.
C19_Witness ==
  /\ \E k \in 1..Len(components) :
       components[k].type = "SWITCH_1WAY" /\ components[k].state.on
  /\ \E k \in 1..Len(components) :
       components[k].type = "SWITCH_2WAY" /\ components[k].state.pos = 1
  /\ \E k \in 1..Len(components) :
       components[k].type = "SWITCH_INTERMEDIATE" /\ components[k].state.pos = 1

\* ----------------------------------------------------- loop-in at the switch
\* Supply, lamp, Neutral block, Line block and 1-way switch on the canvas. The
\* connections of a loop-in circuit are drawn one after the other, each from either
\* end, the switch's COM being fed from the Line block's second or third port, and the
\* switch is toggled at any time.
InitLoop ==
  /\ components = << makeSupply(40, 40, 1), makeLamp(360, 40, 5), makeConnectorN3(200, 200, 9),
                     makeConnectorL3(200, 40, 13), makeSwitch1Way(360, 200, 17) >>
  /\ wires = <<>>
  /\ pending = NoTerm
  /\ undoStack = <<>>
  /\ redoStack = <<>>
  /\ nextId = 21
  /\ region = "UK"
  /\ simMode = "free"
  /\ handler = Idle

LoopLink(a, an, b, bn, kind) ==
  [a |-> termIdByName(a, an), b |-> termIdByName(b, bn), kind |-> kind]

LoopPorts == {"L2", "L3"}

\* Supply N - block N1, block N2 - lamp N, supply L - block L1, a port of the Line
\* block - switch COM, switch L1 - lamp L.
LoopPlan(comps, port) ==
  << LoopLink(comps[1], "N", comps[3], "N1", "N"), LoopLink(comps[3], "N2", comps[2], "N", "N"),
     LoopLink(comps[1], "L", comps[4], "L1", "L"), LoopLink(comps[4], port, comps[5], "COM", "L"),
     LoopLink(comps[5], "L1", comps[2], "L", "L") >>

Drawn(c) == \E k \in 1..Len(wires) : {wires[k].a, wires[k].b} = {c.a, c.b}

\* The next connection of the plan is drawn, from either end.
LoopClick ==
  \E port \in LoopPorts :
    /\ Len(wires) < Len(LoopPlan(components, port))
    /\ LET c == LoopPlan(components, port)[Len(wires) + 1]
       IN \E tid \in {c.a, c.b} :
            /\ pending \in {NoTerm, c.a, c.b}
            /\ onTerminalClick(tid, c.kind, 10, "T&E")

LoopToggle == toggleSwitch(5)

NextLoop ==
  \/ LoopClick
  \/ LoopToggle

SpecLoop == InitLoop /\ [][NextLoop]_vars

\* Every connection of the circuit is drawn.
LoopWired ==
  \E port \in LoopPorts :
    \A k \in 1..Len(LoopPlan(components, port)) : Drawn(LoopPlan(components, port)[k])

ReachFrom(name) == bfs(buildAdjacency(components, wires), termIdByName(components[1], name))

\* C20: in the wired loop-in circuit, with the switch off its COM is reachable from the
\* supply's L while its L1 and the lamp's L are not; with the switch on the lamp's L
\* is reachable from the supply's L and the lamp's N from the supply's N.
C20_LoopInAtSwitch ==
  LoopWired =>
    IF components[5].state.on
    THEN /\ termIdByName(components[2], "L") \in ReachFrom("L")
         /\ termIdByName(components[2], "N") \in ReachFrom("N")
    ELSE /\ termIdByName(components[5], "COM") \in ReachFrom("L")
         /\ termIdByName(components[5], "L1") \notin ReachFrom("L")
         /\ termIdByName(components[2], "L") \notin ReachFrom("L")

\* The circuit is wired with the COM fed from the block's third port alone, and the
\* switch is on.
C20_Witness ==
  /\ LoopWired
  /\ components[5].state.on
  /\ ~Drawn(LoopLink(components[4], "L2", components[5], "COM", "L"))

\* ------------------------------------------------- the split-load unit
\* A split-load unit is added to the initial canvas; its main switch, its RCDs and the
\* MCB and RCBO flags of one way of each bank are toggled.
SplitMaxHist == 3

\* The first way of bank A and the first way of bank B.
SplitWayChoices == {1, SplitWays \div 2 + 1}

SplitAdd ==
  /\ Len(components) = 2
  /\ addToolboxItem("consumer_unit_split")

SplitFlag ==
  \E k \in 1..Len(components), flag \in {"mainOn", "rcdAOn", "rcdBOn"} :
    /\ Len(undoStack) < SplitMaxHist
    /\ toggleSplitFlag(k, flag)

SplitWay ==
  \E k \in 1..Len(components), i \in SplitWayChoices :
    /\ Len(undoStack) < SplitMaxHist
    /\ toggleSplitWay(k, i)

SplitRcbo == \E k \in 1..Len(components), i \in SplitWayChoices : toggleSplitRcbo(k, i)

NextSplit ==
  \/ SplitAdd
  \/ SplitFlag
  \/ SplitWay
  \/ SplitRcbo

SpecSplit == Init /\ [][NextSplit]_vars

\* The terminals joined to the unit's terminal `from` through the unit alone.
ThroughUnit(c, from) == bfs(buildAdjacency(<<c>>, <<>>), termIdByName(c, from))

BankOn(c, i) == IF i <= Len(c.state.ways) \div 2 THEN c.state.rcdAOn ELSE c.state.rcdBOn

SplitUnitOK(c) ==
  \A fromL \in {ThroughUnit(c, "L")}, fromN \in {ThroughUnit(c, "N")} :
    \A i \in 1..Len(c.state.ways) :
      \A lout \in {termIdByName(c, WayName("LOUT", i))},
         nout \in {termIdByName(c, WayName("NOUT", i))}, w \in {c.state.ways[i]} :
        /\ lout # UNDEF /\ nout # UNDEF
        /\ lout \in fromL <=> (c.state.mainOn /\ BankOn(c, i) /\ w.closed)
        /\ nout \in fromN <=> (c.state.mainOn /\ BankOn(c, i) /\ (w.rcbo => w.closed))
        /\ ~c.state.mainOn => {lout, nout} \cap (fromL \cup fromN) = {}

\* C21: for a split-load unit, whatever was toggled, a way's Line-out is joined to the
\* unit's L exactly when the main switch is on, the bank's RCD is on and the way is
\* closed; its Neutral-out is joined to the unit's N exactly when the main switch and
\* the bank's RCD are on and, for an RCBO way, the way is closed; with the main switch
\* off no Line-out or Neutral-out is joined to the unit's L or N.
C21_SplitLoadLinks ==
  \A k \in 1..Len(components) :
    components[k].type = "CONSUMER_UNIT_SPLIT" => SplitUnitOK(components[k])

\* The main switch and both RCDs are on, the open way of bank A is no RCBO and the open
\* way of bank B is one.
C21_Witness ==
  \E k \in 1..Len(components) :
    /\ components[k].type = "CONSUMER_UNIT_SPLIT"
    /\ LET st == components[k].state
           b == Len(st.ways) \div 2 + 1
       IN /\ st.mainOn /\ st.rcdAOn /\ st.rcdBOn
          /\ ~st.ways[1].closed /\ ~st.ways[1].rcbo
          /\ ~st.ways[b].closed /\ st.ways[b].rcbo

\* ------------------------------------------------------ connector blocks
\* Connector blocks and lever connectors of every family are added from the toolbox to
\* the initial canvas; no wire is drawn.
BlockMaxComps == 5

BlockKinds ==
  {"connector_L3", "connector_N3", "connector_E3", "wago_L3", "wago_N3", "wago_E3",
   "wago_L5", "wago_N5", "wago_E5"}

BlockTypes ==
  {"CONNECTOR_L3", "CONNECTOR_N3", "CONNECTOR_E3", "WAGO_L3", "WAGO_N3", "WAGO_E3",
   "WAGO_L5", "WAGO_N5", "WAGO_E5"}

BlockAdd ==
  \E kind \in BlockKinds :
    /\ Len(components) < BlockMaxComps
    /\ addToolboxItem(kind)

NextBlock == BlockAdd

SpecBlock == Init /\ [][NextBlock]_vars

\* C22: every port of a connector block or lever connector that no wire touches is
\* reachable from every other port of the same connector, and from no terminal of
\* another component.
C22_PortsCommoned ==
  \A adj \in {buildAdjacency(components, wires)} :
    \A k \in 1..Len(components) :
      components[k].type \in BlockTypes
        => \A a \in SeqToSet(components[k].terminals) :
             bfs(adj, a.id) = {t.id : t \in SeqToSet(components[k].terminals)}

\* A 3-way block, a 3-way lever connector and a 5-way lever connector are on the canvas.
C22_Witness ==
  /\ wires = <<>>
  /\ \E k \in 1..Len(components) : components[k].type \in {"CONNECTOR_L3", "CONNECTOR_N3", "CONNECTOR_E3"}
  /\ \E k \in 1..Len(components) : components[k].type \in {"WAGO_L3", "WAGO_N3", "WAGO_E3"}
  /\ \E k \in 1..Len(components) :
       components[k].type \in {"WAGO_L5", "WAGO_N5", "WAGO_E5"} /\ Len(components[k].terminals) = 5

\* ------------------------------------------------------ analysis loops
\* The three searches, one loop iteration (or one visit of the recursion) at a time. A
\* running search is held in handler: the graph it was given and the locals of its loop.

\* bfs: while (q.length) { v = q.shift(); for (nxt of adj.get(v)) ... }
BfsRunning(st) == st.q # <<>>

BfsStep(st) ==
  LET r == BfsNbrs(Nbrs(st.g, Head(st.q)), Tail(st.q), st.seen)
  IN [st EXCEPT !.q = r.q, !.seen = r.seen]

\* hasCycleThrough: the call stack of dfs(v, parent); nb is the part of v's neighbour
\* list the for loop of that call has still to read.
DfsRunning(st) == st.stack # <<>>

DfsStep(st) ==
  LET n == Len(st.stack)
      top == st.stack[n]
  IN IF top.nb = <<>> THEN [st EXCEPT !.stack = SubSeq(st.stack, 1, n - 1)]
     ELSE LET u == Head(top.nb)
              read == [st.stack EXCEPT ![n].nb = Tail(top.nb)]
          IN IF u = top.parent THEN [st EXCEPT !.stack = read]
             ELSE IF u \notin st.visited
                  THEN [st EXCEPT !.stack = Append(read, [v |-> u, parent |-> top.v,
                                                          nb |-> Nbrs(st.g, u)]),
                                  !.visited = @ \cup {u}]
                  ELSE [st EXCEPT !.stack = read, !.cycle = TRUE]

\* dijkstraWeighted: while (pq.size) { extract min; if (u === goal) break; relax }
DijkstraRunning(st) == st.pq # <<>> /\ ~st.halt

\* An iteration that leaves the extracted node in pq.
DijkstraStep_NoDelete(st) ==
  LET u == ExtractMin(st.pq, st.dist)
  IN IF u = st.goal THEN [st EXCEPT !.halt = TRUE]
     ELSE LET r == RelaxEdges(st.g[u], u, st.dist, st.prev, st.pq)
          IN [st EXCEPT !.dist = r.dist, !.prev = r.prev, !.pq = r.pq]

DijkstraStep(st) ==
  LET u == ExtractMin(st.pq, st.dist)
      rest == SelectSeq(st.pq, LAMBDA v : v # u)
  IN IF u = st.goal THEN [st EXCEPT !.pq = rest, !.halt = TRUE]
     ELSE LET r == RelaxEdges(st.g[u], u, st.dist, st.prev, rest)
          IN [st EXCEPT !.dist = r.dist, !.prev = r.prev, !.pq = r.pq]

SearchKinds == {"bfs", "dfs", "dijkstra"}

\* The entry of a search: its locals before the first iteration.
SearchEntry(kind, start, goal) ==
  IF kind = "bfs"
  THEN [kind |-> "bfs", g |-> buildAdjacency(components, wires), q |-> <<start>>,
        seen |-> {start}]
  ELSE IF kind = "dfs"
  THEN LET g == Targets(LineGraphW(components, wires))
       IN [kind |-> "dfs", g |-> g,
           stack |-> IF start \in DOMAIN g
                     THEN << [v |-> start, parent |-> NoTerm, nb |-> Nbrs(g, start)] >>
                     ELSE <<>>,
           visited |-> IF start \in DOMAIN g THEN {start} ELSE {}, cycle |-> FALSE]
  ELSE LET g == LineGraphW(components, wires)
       IN [kind |-> "dijkstra", g |-> g, goal |-> goal, dist |-> (start :> 0),
           prev |-> <<>>, pq |-> IF start \in DOMAIN g /\ goal \in DOMAIN g
                                 THEN <<start>> ELSE <<>>,
           halt |-> FALSE]

SearchRunning(st) ==
  IF st.kind = "bfs" THEN BfsRunning(st)
  ELSE IF st.kind = "dfs" THEN DfsRunning(st)
  ELSE st.kind = "dijkstra" /\ DijkstraRunning(st)

SearchStep(st) ==
  IF st.kind = "bfs" THEN BfsStep(st)
  ELSE IF st.kind = "dfs" THEN DfsStep(st)
  ELSE DijkstraStep(st)

RunMaxWires == 2

RunEnds ==
  {termIdByName(components[1], "L"), termIdByName(components[2], "LIN"),
   termIdByName(components[2], "LOUT")}

\* A loaded file joins any two of the ends, the same end twice included.
RunImport ==
  \E a \in RunEnds, b \in RunEnds :
    /\ handler = Idle
    /\ Len(wires) < RunMaxWires
    /\ importState([components |-> components,
                    wires |-> Append(wires, Wire(nextId + Len(wires), a, b, "L", 25, 0,
                                                 "none", "T&E", FALSE))])

RunStart ==
  \E kind \in SearchKinds, start \in RunEnds, goal \in RunEnds :
    /\ handler = Idle
    /\ handler' = SearchEntry(kind, start, goal)
    /\ UNCHANGED <<components, wires, pending, undoStack, redoStack, nextId, region, simMode>>

\* The next iteration of the running search, or its return.
RunStep ==
  /\ handler.kind \in SearchKinds
  /\ handler' = IF SearchRunning(handler) THEN SearchStep(handler) ELSE Idle
  /\ UNCHANGED <<components, wires, pending, undoStack, redoStack, nextId, region, simMode>>

NextRun ==
  \/ RunImport
  \/ RunStart
  \/ RunStep

\* The searches are synchronous loops: a started search keeps taking its steps.
SpecRun == InitRing /\ [][NextRun]_vars /\ WF_vars(RunStep)

\* C23: every started search (breadth-first reachability, the cycle search, the
\* shortest-resistance search) returns, whatever graph the builders gave it: graphs
\* with cycles, with several edges between two terminals and with self-loop edges.
C23_SearchesTerminate == (handler.kind \in SearchKinds) ~> (handler = Idle)

\* The cycle search has met a visited terminal in a graph that holds a self-loop wire and
\* a wire laid along an internal link.
C23_Witness ==
  /\ handler.kind = "dfs"
  /\ handler.cycle
  /\ \E k \in 1..Len(wires) : wires[k].a = wires[k].b
  /\ \E k \in 1..Len(wires) : {wires[k].a, wires[k].b} = RunEnds \ {termIdByName(components[1], "L")}

\* ------------------------------------------------------ cycle detection
RECURSIVE EdgeEnds(_, _)
\* The number of edge ends at the terminals of R: twice the number of edges among them
\* when R is closed under the edges of g.
EdgeEnds(g, R) ==
  IF R = {} THEN 0
  ELSE LET n == CHOOSE m \in R : TRUE IN Len(Nbrs(g, n)) + EdgeEnds(g, R \ {n})

\* The part of g reachable from start holds a cycle: it is connected, so it is a tree
\* exactly when it has one edge fewer than terminals.
ContainsCycle(g, start) ==
  \A part \in {bfsSet(Targets(g), start)} :
    part # {} /\ EdgeEnds(g, part) >= 2 * Cardinality(part)

\* The same graph with every neighbour list stored in the opposite order.
Restored(g) == [n \in DOMAIN g |-> Reverse(g[n])]

CycleStarts == RunEnds \cup {termIdByName(components[1], "N"), UNDEF}

\* C24: hasCycleThrough(graph, startId) is true iff the part of the graph reachable
\* from startId contains a cycle, false when startId is no node of the graph, and the
\* same when the neighbour lists are stored in another order.
C24_CycleDetected ==
  \A g \in {LineGraphW(components, wires)} :
    \A start \in CycleStarts :
      /\ hasCycleThrough(g, start) <=> ContainsCycle(g, start)
      /\ start \notin DOMAIN g => ~hasCycleThrough(g, start)
      /\ hasCycleThrough(Restored(g), start) <=> hasCycleThrough(g, start)

\* The supply's Line terminal and the two Line terminals of a socket are joined in a
\* triangle: a cycle is reported from the supply and none from the Neutral terminal.
C24_Witness ==
  /\ Len(wires) = 2
  /\ \A a \in RunEnds : \E k \in 1..Len(wires) : a \in {wires[k].a, wires[k].b}
  /\ \A k \in 1..Len(wires) : wires[k].a # wires[k].b /\ termIdByName(components[1], "L") \in {wires[k].a, wires[k].b}
  /\ wires[1].a # wires[2].a \/ wires[1].b # wires[2].b
  /\ {wires[1].a, wires[1].b} # {wires[2].a, wires[2].b}
  /\ hasCycleThrough(LineGraphW(components, wires), termIdByName(components[1], "L"))
  /\ ~hasCycleThrough(LineGraphW(components, wires), termIdByName(components[1], "N"))

\* ------------------------------------------- the two family-filtered builders
\* C25: for every family and every two terminals a and b, b is in the set reachable from
\* a in the family's unweighted graph iff the family's weighted graph has a path of
\* finite resistance from a to b.
C25_BuildersAgree ==
  \A F \in Families :
    \A gt \in {buildTypedSubgraph(components, wires, FamilySet(F))},
       gw \in {buildWeightedSubgraph(components, wires, FamilySet(F), F)} :
      \A a \in TerminalIds(components), b \in TerminalIds(components) :
        b \in bfsSet(gt, a) <=> ~dijkstraWeighted(gw, a, b).inf

\* ------------------------------------------------------ undo and behaviour
\* What the analysis derives from a state: the unfiltered graph, the graphs of each
\* family and the analysis outputs.
Behaviour(comps, ws) ==
  [adjacency |-> buildAdjacency(comps, ws),
   typed |-> [F \in Families |-> buildTypedSubgraph(comps, ws, FamilySet(F))],
   weighted |-> [F \in Families |-> buildWeightedSubgraph(comps, ws, FamilySet(F), F)],
   analysis |-> Analysis(comps, ws, region)]

\* C26: undo after a recorded mutation restores the behaviour of the state before the
\* mutation: the snapshot a mutation records has the derived graphs and analysis outputs
\* of the state it was taken from, its switches and consumer units keep their
\* state-dependent links, and undo installs the last snapshot.
C26_UndoRestoresBehaviour ==
  [][/\ Len(undoStack') = Len(undoStack) + 1
          => \A snap \in {undoStack'[Len(undoStack')]} :
               /\ Behaviour(snap.components, snap.wires) = Behaviour(components, wires)
               /\ \A k \in 1..Len(components) :
                    components[k].il = "fn" => snap.components[k].il = "fn"
     /\ Len(undoStack') = Len(undoStack) - 1
          => /\ components' = undoStack[Len(undoStack)].components
             /\ wires' = undoStack[Len(undoStack)].wires]_vars

\* ------------------------------------------------------ multi-core bundles
\* CablePresets: the cores of a preset, fixed = 0 where the core has no fixedSizeMm2.
CablePresets(name) ==
  IF name = "T&E 2C+E"
  THEN [cores |-> << [kind |-> "L", fixed |-> 0], [kind |-> "N", fixed |-> 0],
                     [kind |-> "E", fixed |-> 0] >>, family |-> "T&E"]
  ELSE IF name = "Bonding (E)"
  THEN [cores |-> << [kind |-> "E", fixed |-> 100] >>, family |-> "Bonding"]
  ELSE [cores |-> << [kind |-> "L", fixed |-> 0], [kind |-> "L", fixed |-> 0],
                     [kind |-> "L", fixed |-> 0], [kind |-> "E", fixed |-> 0] >>,
        family |-> "PVC singles"]

\* comp.terminals.find(t => t.t === terminalType) || comp.terminals.find(t => t.id === tid)
CoreTerminal(c, kind, tid) ==
  IF \E i \in 1..Len(c.terminals) : c.terminals[i].t = kind
  THEN c.terminals[FirstIndex({i \in 1..Len(c.terminals) : c.terminals[i].t = kind})].id
  ELSE tid

\* The wires of a completed bundle, one per core, in the order of the cores.
BundleWires(from, tid, preset, bundleSize, i) ==
  LET fromComp == terminalById(components, from).comp
      toComp == terminalById(components, tid).comp
      cores == CablePresets(preset).cores
      family == CablePresets(preset).family
      coreSize(core) ==
        IF core.fixed # 0 THEN core.fixed
        ELSE IF core.kind = "E" /\ family = "T&E" THEN cpcSizeForBundle(bundleSize)
        ELSE bundleSize
  IN [k \in 1..Len(cores) |->
        Wire(i + k - 1, CoreTerminal(fromComp, cores[k].kind, from),
             CoreTerminal(toComp, cores[k].kind, tid), cores[k].kind, coreSize(cores[k]),
             0, "none", family, FALSE)]

\* bundlePending, { from, preset }, is held in handler between the two clicks of a bundle.
BundlePending(from, preset) == [kind |-> "bundlePending", from |-> from, preset |-> preset]

\* onTerminalClick(tid) with bundleMode set
onTerminalClickBundle(tid, bundleMode, bundleSize) ==
  IF handler = Idle
  THEN /\ handler' = BundlePending(tid, bundleMode)
       /\ UNCHANGED <<components, wires, pending, undoStack, redoStack, nextId, region, simMode>>
  ELSE /\ handler.kind = "bundlePending"
       /\ handler' = Idle
       /\ IF handler.from # tid
          THEN /\ pushHistory
               /\ wires' = wires \o BundleWires(handler.from, tid, handler.preset, bundleSize, nextId)
               /\ nextId' = nextId + Len(CablePresets(handler.preset).cores)
               /\ UNCHANGED <<components, pending, region, simMode>>
          ELSE UNCHANGED <<components, wires, pending, undoStack, redoStack, nextId, region,
                           simMode>>

BundleMaxWires == 5

BundleNames == {"T&E 2C+E", "3C+E"}

BundleTargets == {t.id : t \in {u \in AllTerminals(components) : u.name \in {"L", "N"}}}

BundleClick ==
  \E tid \in BundleTargets, mode \in BundleNames :
    /\ Len(wires) < BundleMaxWires - 2
    /\ onTerminalClickBundle(tid, mode, 25)

BundleSingle ==
  \E tid \in BundleTargets :
    /\ handler = Idle
    /\ Len(wires) < BundleMaxWires
    /\ onTerminalClick(tid, "L", 25, "T&E")

NextBundle ==
  \/ BundleClick
  \/ BundleSingle

SpecBundle == Init /\ [][NextBundle]_vars

\* The two-terminal sets joined by an edge among the terminals of part.
SimpleEdges(g, part) ==
  UNION {{{a, g[a][i].to} : i \in {j \in 1..Len(g[a]) : g[a][j].to # a}} : a \in part}

\* The part of g reachable from start holds a cycle through at least three distinct
\* terminals: with self-loops and repeated edges left out it is still no tree.
CycleOfThree(g, start) ==
  \A part \in {bfsSet(Targets(g), start)} :
    part # {} /\ Cardinality(SimpleEdges(g, part)) >= Cardinality(part)

\* C27: the ring flag of a family is true only if that family's graph reachable from
\* the supply holds a cycle through at least three distinct terminals.
C27_RingNeedsThreeTerminals ==
  \A ring \in {Analysis(components, wires, region).ring} :
    \A F \in Families :
      ring[F] => CycleOfThree(buildWeightedSubgraph(components, wires, FamilySet(F), F),
                              termIdByName(components[1], F))

\* ------------------------------------------------------ radial sockets
\* The wires with an end on terminal tid.
WiresAt(tid) == {k \in 1..Len(wires) : tid \in {wires[k].a, wires[k].b}}

\* Socket c hangs on the supply's Line network by one wire: one of its Line terminals
\* holds exactly one wire and is reachable from the supply's Line terminal, the others
\* hold none.
RadialBranch(c) ==
  \A tids \in {SeqToSet(socketLineTermIds(c))} :
    \E t \in tids :
      /\ Cardinality(WiresAt(t)) = 1
      /\ \A u \in tids \ {t} : WiresAt(u) = {}
      /\ t \in bfsSet(Targets(LineGraphW(components, wires)), termIdByName(components[1], "L"))

\* C28: a socket on a radial branch is classified as a spur and not as in the ring.
C28_RadialSocketIsSpur ==
  \A v \in {Analysis(components, wires, region).validator} :
    \A k \in 1..Len(components) :
      components[k].type \in SocketTypes /\ RadialBranch(components[k])
        => /\ components[k].id \in SeqToSet(v.spurSockets)
           /\ components[k].id \notin SeqToSet(v.ringSockets)

\* ------------------------------------------------------ refused cuts
\* The drop of handle termId at p is aimed at a wire, and cutWireAt refuses the cut
\* (returns null).
RefusedDrop(termId, p) ==
  \E tgt \in {DropTarget(0, termId, p)} :
    /\ tgt.tHit = NoTerm
    /\ tgt.wHit # 0
    /\ ~cutWireAt(components, wires[tgt.wHit], DropHitPoint(tgt.wHit, p), nextId).ok

\* C29: when cutWireAt returns null for the drop of a dragged junction handle on a wire,
\* the drop leaves the wires and the undo history unchanged, changes the components by
\* nothing but the move of the handle, and raises no error.
C29_RefusedCutIsNoOp ==
  [][\A termId \in DraggableHandles(components), p \in DropPoints, batched \in BOOLEAN :
       \A compId \in {terminalById(components, termId).comp.id} :
         RefusedDrop(termId, p) /\ onMouseDownTerminal(compId, termId, p, batched)
           => /\ wires' = wires
              /\ undoStack' = undoStack
              /\ components' = MoveTerminal(components, compId, termId, p)
              /\ handler' # Crashed]_vars

\* ------------------------------------------------------ undo and redo
\* The states held for undo, the present state, and the states held for redo, oldest
\* first.
Timeline ==
  undoStack \o << [components |-> components, wires |-> wires] >> \o Reverse(redoStack)

\* C30: undo and redo move along one line of states without changing it, undo one
\* state back and redo one state forward, so that undo then redo, and n undos then n
\* redos, return to the same components and wires; every other step that records
\* history empties the redo stack; undo is not taken with an empty undo stack nor redo
\* with an empty redo stack.
C30_UndoRedo ==
  /\ [](undoStack = <<>> => ~ENABLED undo)
  /\ [](redoStack = <<>> => ~ENABLED redo)
  /\ [][/\ undo => Timeline' = Timeline /\ Len(undoStack') = Len(undoStack) - 1
        /\ redo => Timeline' = Timeline /\ Len(undoStack') = Len(undoStack) + 1
        /\ ~undo /\ ~redo /\ undoStack' # undoStack => redoStack' = <<>>]_vars

\* A redo has been taken with a further state still held for redo: the undo stack holds
\* a state with a live switch or consumer unit, which no recorded snapshot does.
C30_Witness ==
  /\ redoStack # <<>>
  /\ \E i \in 1..Len(undoStack) :
       \E k \in 1..Len(undoStack[i].components) : undoStack[i].components[k].il = "fn"

====
